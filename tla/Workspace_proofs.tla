-------------------------- MODULE Workspace_proofs --------------------------
(***************************************************************************)
(* The tools around a scaffolded project, for any files, processes, calls, *)
(* faults and deaths: OneServerKnown, TasksKept, StreamComplete,           *)
(* ScaffoldKeepsWord, DriversKeepWord, ReplaysApart and TestsKeepWord.     *)
(***************************************************************************)
EXTENDS Evolve, Scaffold, ServerManager, TodoList, StreamedRun, Drivers, TestHarness, Arrangement_proofs,
        FiniteSetTheorems, SequenceTheorems, WellFoundedInduction, TLAPS

---------------------------------------------------------------------------
(* The web server of a project.                                            *)

Active(c) == cmd[c].pc # "none"

(* The file names the only server.                                         *)
Known == Servers \subseteq {pidFile}

(* What a command under way has found or left so far. *)
Underway(c) ==
  /\ cmd[c].pc \in {"check", "stop", "await", "attach", "agent", "end"} => Known
  /\ cmd[c].pc \in {"spawn", "gone"} => Servers = {}
  /\ cmd[c].pc = "write" => Servers \subseteq {cmd[c].pid}
  /\ cmd[c].pc = "term"  => Known /\ pidFile # None /\ cmd[c].pid = pidFile
  /\ cmd[c].pc \in {"check", "spawn", "write", "await", "attach", "agent"} => cmd[c].what # "stop"
  /\ cmd[c].pc = "end" /\ cmd[c].what = "stop" => Servers = {}

Commands ==
  [pc : {"none"}] \cup
  [pc : {"check", "stop", "attach", "spawn", "write", "await", "term", "gone", "agent", "end"},
   what : {"start", "stop", "restart", "run", "run bare"}, pid : Pids \cup {None},
   spawn : {None, "blocking", "detached"}]

ManagerTypes ==
  /\ os \in [Pids -> {None, "starting", "up", "other"}]
  /\ pidFile \in Pids \cup {None}
  /\ cmd \in [Cmds -> Commands]

ManagerInv ==
  /\ ManagerTypes
  /\ orderly =>
       /\ \A c, d \in Cmds : Active(c) /\ Active(d) => c = d
       /\ (\A c \in Cmds : ~Active(c)) => Known
       /\ \A c \in Cmds : Underway(c)

LEMMA CommandOf ==
  ASSUME ManagerTypes, NEW c \in Cmds, Active(c)
  PROVE  /\ cmd[c].pc \in {"check", "stop", "attach", "spawn", "write", "await", "term", "gone", "agent", "end"}
         /\ cmd[c].what \in {"start", "stop", "restart", "run", "run bare"}
         /\ cmd[c].pid \in Pids \cup {None} /\ cmd[c].spawn \in {None, "blocking", "detached"}
         /\ cmd[c] = [pc |-> cmd[c].pc, what |-> cmd[c].what, pid |-> cmd[c].pid, spawn |-> cmd[c].spawn]
BY DEF ManagerTypes, Commands, Active

(* Only one command is under way while they are orderly.                   *)
LEMMA OthersIdle ==
  ASSUME ManagerInv, NEW c \in Cmds, Active(c), ManagerTypes',
         \A d \in Cmds \ {c} : cmd'[d] = cmd[d],
         orderly' => orderly,
         orderly' => IF Active(c)' THEN Underway(c)' ELSE Known'
  PROVE  ManagerInv'
<1> SUFFICES ASSUME orderly'
             PROVE  /\ \A d, e \in Cmds : Active(d)' /\ Active(e)' => d = e
                    /\ (\A d \in Cmds : ~Active(d)') => Known'
                    /\ \A d \in Cmds : Underway(d)'
  BY DEF ManagerInv
<1>1. \A d \in Cmds \ {c} : cmd'[d].pc = "none"
  BY DEF ManagerInv, Active
<1>2. \A d \in Cmds \ {c} : Underway(d)'
  BY <1>1 DEF Underway
<1>3. ~Active(c)' => Underway(c)'
  BY DEF Underway, Active
<1> QED BY <1>1, <1>2, <1>3 DEF Active

LEMMA IsCommand ==
  ASSUME ManagerTypes, NEW c \in Cmds, Active(c), NEW pid \in Pids \cup {None},
         NEW pc \in {"check", "attach", "spawn", "write", "await", "term", "gone", "agent", "end"}
  PROVE  [pc |-> pc, what |-> cmd[c].what, pid |-> pid, spawn |-> cmd[c].spawn] \in Commands
<1>1. cmd[c].what \in {"start", "stop", "restart", "run", "run bare"} /\ cmd[c].spawn \in {None, "blocking", "detached"}
  BY CommandOf
<1> DEFINE w == cmd[c].what
           s == cmd[c].spawn
<1> HIDE DEF w, s
<1>2. \A x \in {"start", "stop", "restart", "run", "run bare"}, y \in {None, "blocking", "detached"} :
        [pc |-> pc, what |-> x, pid |-> pid, spawn |-> y] \in Commands
  BY DEF Commands
<1> QED BY <1>1, <1>2

(* A command goes on: its place, and the pid it keeps.                     *)
Phases == {"check", "attach", "spawn", "write", "await", "term", "gone", "agent", "end"}

Goes(c, pc, pid) ==
  \/ cmd' = [cmd EXCEPT ![c].pc = pc, ![c].pid = pid]
  \/ Then(c, pc) /\ pid = cmd[c].pid

LEMMA GoesOn ==
  ASSUME ManagerTypes, NEW c \in Cmds, Active(c), NEW pc \in Phases, NEW pid \in Pids \cup {None},
         Goes(c, pc, pid)
  PROVE  /\ cmd' \in [Cmds -> Commands]
         /\ cmd'[c].pc = pc /\ cmd'[c].pid = pid /\ cmd'[c].what = cmd[c].what
         /\ \A d \in Cmds \ {c} : cmd'[d] = cmd[d]
<1> DEFINE r == [pc |-> pc, what |-> cmd[c].what, pid |-> pid, spawn |-> cmd[c].spawn]
<1>1. r \in Commands
  BY IsCommand DEF Phases
<1>2. cmd' = [cmd EXCEPT ![c] = r]
  <2>1. cmd[c] = [pc |-> cmd[c].pc, what |-> cmd[c].what, pid |-> cmd[c].pid, spawn |-> cmd[c].spawn]
    BY CommandOf
  <2> DEFINE old == cmd[c]
             mid == [old EXCEPT !.pc = pc]
  <2>2. [old EXCEPT !.pc = pc, !.pid = pid] = r
    <3>1. mid = [pc |-> pc, what |-> cmd[c].what, pid |-> cmd[c].pid, spawn |-> cmd[c].spawn]
      BY <2>1
    <3>2. ASSUME NEW m, m = [pc |-> pc, what |-> cmd[c].what, pid |-> cmd[c].pid, spawn |-> cmd[c].spawn]
          PROVE  [m EXCEPT !.pid = pid] = r
      BY <3>2
    <3>3. [mid EXCEPT !.pid = pid] = r
      BY <3>1, <3>2
    <3>4. [old EXCEPT !.pc = pc, !.pid = pid] = [mid EXCEPT !.pid = pid]
      BY Zenon
    <3> QED BY <3>3, <3>4
  <2>3. pid = old.pid => [old EXCEPT !.pc = pc] = r
    BY <2>1
  <2>4. CASE cmd' = [cmd EXCEPT ![c].pc = pc, ![c].pid = pid]
    BY <2>2, <2>4 DEF ManagerTypes
  <2>5. CASE Then(c, pc) /\ pid = cmd[c].pid
    BY <2>3, <2>5 DEF ManagerTypes, Then
  <2> QED BY <2>4, <2>5 DEF Goes
<1> HIDE DEF r
<1>3. /\ cmd' \in [Cmds -> Commands] /\ cmd'[c] = r /\ \A d \in Cmds \ {c} : cmd'[d] = cmd[d]
  BY <1>1, <1>2 DEF ManagerTypes
<1> QED BY <1>3 DEF r

(* What is known without a look at the file: nobody, or the one in it.     *)
LEMMA ForgottenKnown ==
  ASSUME ManagerTypes, Known, pidFile' = Forgotten, os' = os
  PROVE  /\ Known' /\ pidFile' \in Pids \cup {None}
         /\ (pidFile = None \/ ~Alive(pidFile) => Servers' = {})
<1> USE ManagerAssumption DEF ManagerAssumption, ManagerTypes, Known, Servers, Alive, Forgotten, Gone
<1>1. pidFile = None \/ ~Alive(pidFile) => Servers = {}
  OBVIOUS
<1>2. Servers' = Servers
  OBVIOUS
<1>3. Known'
  BY <1>1
<1> QED BY <1>1, <1>2, <1>3

LEMMA CommandKnows == ASSUME ManagerInv, NEW c \in Cmds, Command(c) PROVE ManagerInv'
<1>1. PICK what \in {"start", "stop", "restart", "run", "run bare"}, spawn \in {None, "blocking", "detached"} :
        cmd' = [cmd EXCEPT ![c] =
            [pc    |-> CASE what \in {"start", "run"}   -> "check"
                         [] what \in {"stop", "restart"} -> "stop"
                         [] OTHER                        -> "attach",
             what  |-> what, pid |-> None, spawn |-> spawn]]
  BY DEF Command
<1> DEFINE pc == CASE what \in {"start", "run"}   -> "check"
                   [] what \in {"stop", "restart"} -> "stop"
                   [] OTHER                        -> "attach"
<1>2. pc \in {"check", "stop", "attach"}
  OBVIOUS
<1> HIDE DEF pc
<1>3. cmd' = [cmd EXCEPT ![c] = [pc |-> pc, what |-> what, pid |-> None, spawn |-> spawn]]
  BY <1>1 DEF pc
<1>4. cmd' \in [Cmds -> Commands] /\ cmd'[c].pc = pc /\ \A d \in Cmds \ {c} : cmd'[d] = cmd[d]
  <2>1. [pc |-> pc, what |-> what, pid |-> None, spawn |-> spawn] \in Commands
    BY <1>2 DEF Commands
  <2> QED BY <1>3, <2>1 DEF ManagerInv, ManagerTypes
<1>5. UNCHANGED <<os, pidFile>> /\ (orderly' => orderly /\ \A d \in Cmds : ~Active(d))
  BY DEF Command, Active
<1>6. ManagerTypes'
  BY <1>4, <1>5 DEF ManagerInv, ManagerTypes
<1>7. orderly' => Known'
  BY <1>5 DEF ManagerInv, Known, Servers
<1>9. cmd'[c].what = "stop" => cmd'[c].pc = "stop"
  BY <1>3 DEF ManagerInv, ManagerTypes, pc
<1>8. orderly' => \A d \in Cmds : Underway(d)' /\ (Active(d)' => d = c)
  BY <1>2, <1>4, <1>5, <1>7, <1>9 DEF Underway, Active
<1> QED BY <1>2, <1>4, <1>6, <1>7, <1>8 DEF ManagerInv, Active

LEMMA CommandsKnow ==
  ASSUME ManagerInv, NEW c \in Cmds,
         Check(c) \/ Spawn(c) \/ WritePid(c) \/ Await(c) \/ Stop(c) \/ Term(c) \/ Unlink(c) \/ Attach(c)
  PROVE  ManagerInv'
<1>1. ManagerTypes /\ Active(c) /\ (orderly => Underway(c))
  BY DEF ManagerInv, Check, Spawn, WritePid, Await, Stop, Term, Unlink, Attach, Active
<1>2. /\ After(c) \in {"attach", "end"}
      /\ Stopped(c) \in {"check", "end"} /\ (Stopped(c) = "check" => cmd[c].what # "stop")
      /\ Signalled(c) = IF pidFile = None \/ ~Alive(pidFile) THEN Stopped(c) ELSE "term"
  BY DEF After, Stopped, Signalled
<1>3. pidFile \in Pids \cup {None} /\ cmd[c].pid \in Pids \cup {None}
  BY <1>1, CommandOf DEF ManagerTypes
<1>4. ASSUME NEW pc \in Phases, NEW pid \in Pids \cup {None},
             Goes(c, pc, pid),
             os' \in [Pids -> {None, "starting", "up", "other"}], pidFile' \in Pids \cup {None},
             orderly' => orderly,
             ASSUME orderly', cmd'[c].pc = pc, cmd'[c].pid = pid, cmd'[c].what = cmd[c].what PROVE Underway(c)'
      PROVE  ManagerInv'
  <2>1. /\ cmd' \in [Cmds -> Commands] /\ cmd'[c].pc = pc /\ cmd'[c].pid = pid /\ cmd'[c].what = cmd[c].what
        /\ \A d \in Cmds \ {c} : cmd'[d] = cmd[d]
    BY <1>1, <1>4, GoesOn
  <2>2. ManagerTypes' /\ Active(c)'
    BY <1>4, <2>1 DEF ManagerTypes, Active, Phases
  <2>3. orderly' => Underway(c)'
    BY <1>4, <2>1
  <2> QED BY <1>1, <1>4, <2>1, <2>2, <2>3, OthersIdle
<1>5. CASE Check(c)
  <2>0. orderly' => orderly
    <3>1. orderly' = orderly \/ orderly' = (orderly /\ Servers = {})
      BY <1>5, Zenon DEF Check
    <3> QED BY <3>1, Zenon
  <2>1. cmd[c].pc = "check" /\ pidFile' = Forgotten /\ UNCHANGED os /\ (orderly' => orderly)
    BY <1>5, <2>0 DEF Check
  <2>2. pidFile' \in Pids \cup {None}
    BY <1>3, <2>1 DEF Forgotten
  <2>3. orderly => Known' /\ cmd[c].what # "stop"
    BY <1>1, <2>1, ForgottenKnown DEF Underway
  <2>4. CASE Then(c, After(c))
    <3>1. ASSUME orderly', cmd'[c].pc = After(c), cmd'[c].what = cmd[c].what PROVE Underway(c)'
      BY <1>2, <2>1, <2>3, <3>1 DEF Underway
    <3> QED BY <1>1, <1>2, <1>3, <1>4, <2>1, <2>2, <2>4, <3>1 DEF ManagerTypes, Phases, Goes
  <2>5. CASE Then(c, "spawn") /\ orderly' = (orderly /\ Servers = {})
    <3>1. ASSUME orderly', cmd'[c].pc = "spawn", cmd'[c].what = cmd[c].what PROVE Underway(c)'
      BY <2>1, <2>3, <2>5, <3>1 DEF Underway, Servers
    <3> QED BY <1>1, <1>3, <1>4, <2>1, <2>2, <2>5, <3>1 DEF ManagerTypes, Phases, Goes
  <2> QED BY <1>5, <2>4, <2>5 DEF Check
<1>6. CASE Spawn(c)
  <2>1. cmd[c].pc = "spawn" /\ UNCHANGED <<pidFile, orderly>>
        /\ (orderly => Servers = {} /\ cmd[c].what # "stop")
    BY <1>1, <1>6 DEF Spawn, Underway
  <2>2. CASE Then(c, After(c)) /\ UNCHANGED os
    <3>1. orderly => Known'
      BY <2>1, <2>2 DEF Known, Servers
    <3>2. ASSUME orderly', cmd'[c].pc = After(c), cmd'[c].what = cmd[c].what PROVE Underway(c)'
      BY <1>2, <2>1, <3>1, <3>2 DEF Underway
    <3> QED BY <1>1, <1>2, <1>3, <1>4, <2>1, <2>2, <3>2 DEF ManagerTypes, Phases, Goes
  <2>3. ASSUME NEW p \in Pids, os[p] = None, os' = [os EXCEPT ![p] = "starting"],
               cmd' = [cmd EXCEPT ![c].pc = "write", ![c].pid = p]
        PROVE  ManagerInv'
    <3>1. orderly => Servers' \subseteq {p}
      BY <1>1, <2>1, <2>3 DEF Servers, ManagerTypes
    <3>2. ASSUME orderly', cmd'[c].pc = "write", cmd'[c].pid = p, cmd'[c].what = cmd[c].what PROVE Underway(c)'
      BY <2>1, <3>1, <3>2 DEF Underway
    <3>3. os' \in [Pids -> {None, "starting", "up", "other"}]
      BY <1>1, <2>3 DEF ManagerTypes
    <3> QED BY <1>3, <1>4, <2>1, <2>3, <3>2, <3>3 DEF Phases, Goes
  <2> QED BY <1>6, <2>2, <2>3 DEF Spawn
<1>7. CASE WritePid(c)
  <2>1. cmd[c].pc = "write" /\ pidFile' = cmd[c].pid /\ Then(c, "await") /\ UNCHANGED <<os, orderly>>
    BY <1>7 DEF WritePid
  <2>2. orderly => Known' /\ cmd[c].what # "stop"
    BY <1>1, <2>1 DEF Underway, Known, Servers
  <2>3. ASSUME orderly', cmd'[c].pc = "await", cmd'[c].what = cmd[c].what PROVE Underway(c)'
    BY <2>1, <2>2, <2>3 DEF Underway
  <2> QED BY <1>1, <1>3, <1>4, <2>1, <2>3 DEF ManagerTypes, Phases, Goes
<1>8. CASE Await(c)
  <2>1. cmd[c].pc = "await" /\ Then(c, After(c)) /\ pidFile' = Forgotten /\ UNCHANGED <<os, orderly>>
    BY <1>8 DEF Await
  <2>2. pidFile' \in Pids \cup {None}
    BY <1>3, <2>1 DEF Forgotten
  <2>3. orderly => Known' /\ cmd[c].what # "stop"
    BY <1>1, <2>1, ForgottenKnown DEF Underway
  <2>4. ASSUME orderly', cmd'[c].pc = After(c), cmd'[c].what = cmd[c].what PROVE Underway(c)'
    BY <1>2, <2>1, <2>3, <2>4 DEF Underway
  <2> QED BY <1>1, <1>2, <1>3, <1>4, <2>1, <2>2, <2>4 DEF ManagerTypes, Phases, Goes
<1>9. CASE Stop(c)
  <2>1. /\ cmd[c].pc = "stop" /\ Goes(c, Signalled(c), pidFile) /\ Signalled(c) \in Phases
        /\ pidFile' = Forgotten /\ UNCHANGED <<os, orderly>>
    BY <1>2, <1>9 DEF Stop, Goes, Phases
  <2>2. pidFile' \in Pids \cup {None}
    BY <1>3, <2>1 DEF Forgotten
  <2>3. orderly => Known' /\ (Signalled(c) # "term" => Servers' = {})
    BY <1>1, <1>2, <2>1, ForgottenKnown DEF Underway
  <2>4. Signalled(c) = "term" => pidFile # None /\ pidFile' = pidFile
    BY <1>2, <2>1 DEF Forgotten, Gone
  <2>5. ASSUME orderly', cmd'[c].pc = Signalled(c), cmd'[c].pid = pidFile, cmd'[c].what = cmd[c].what
        PROVE  Underway(c)'
    BY <1>2, <2>1, <2>3, <2>4, <2>5 DEF Underway
  <2> QED BY <1>1, <1>3, <1>4, <2>1, <2>2, <2>5 DEF ManagerTypes
<1>10. CASE Term(c)
  <2>1. cmd[c].pc = "term" /\ os' = [os EXCEPT ![cmd[c].pid] = None] /\ Then(c, "gone") /\ UNCHANGED <<pidFile, orderly>>
    BY <1>10 DEF Term, Killed
  <2>2. os' \in [Pids -> {None, "starting", "up", "other"}]
    BY <1>1, <2>1 DEF ManagerTypes
  <2>3. orderly => Servers' = {}
    BY <1>1, <2>1, ManagerAssumption DEF Underway, Known, Servers, ManagerTypes, ManagerAssumption
  <2>4. ASSUME orderly', cmd'[c].pc = "gone" PROVE Underway(c)'
    BY <2>1, <2>3, <2>4 DEF Underway
  <2> QED BY <1>3, <1>4, <2>1, <2>2, <2>4 DEF Phases, Goes
<1>11. CASE Unlink(c)
  <2>1. cmd[c].pc = "gone" /\ pidFile' = None /\ Then(c, Stopped(c)) /\ UNCHANGED <<os, orderly>>
    BY <1>11 DEF Unlink
  <2>2. orderly => Known' /\ Servers' = {}
    BY <1>1, <2>1 DEF Underway, Known, Servers
  <2>3. ASSUME orderly', cmd'[c].pc = Stopped(c), cmd'[c].what = cmd[c].what PROVE Underway(c)'
    BY <1>2, <2>1, <2>2, <2>3 DEF Underway
  <2> QED BY <1>1, <1>2, <1>3, <1>4, <2>1, <2>3 DEF ManagerTypes, Phases, Goes
<1>12. CASE Attach(c)
  <2>1. cmd[c].pc = "attach" /\ pidFile' = Forgotten /\ Then(c, "agent") /\ UNCHANGED <<os, orderly>>
    BY <1>12 DEF Attach
  <2>2. pidFile' \in Pids \cup {None}
    BY <1>3, <2>1 DEF Forgotten
  <2>3. orderly => Known' /\ cmd[c].what # "stop"
    BY <1>1, <2>1, ForgottenKnown DEF Underway
  <2>4. ASSUME orderly', cmd'[c].pc = "agent", cmd'[c].what = cmd[c].what PROVE Underway(c)'
    BY <2>1, <2>3, <2>4 DEF Underway
  <2> QED BY <1>1, <1>3, <1>4, <2>1, <2>2, <2>4 DEF ManagerTypes, Phases, Goes
<1> QED BY <1>5, <1>6, <1>7, <1>8, <1>9, <1>10, <1>11, <1>12

LEMMA EndersKnow ==
  ASSUME ManagerInv, NEW c \in Cmds, AgentEnds(c) \/ SpawnTimeout(c) \/ End(c)
  PROVE  ManagerInv'
<1>1. ManagerTypes /\ Active(c) /\ (orderly => Underway(c)) /\ UNCHANGED <<os, pidFile, orderly>>
  BY DEF ManagerInv, AgentEnds, SpawnTimeout, End, Active
<1>2. (Known => Known') /\ Servers' = Servers
  BY <1>1 DEF Known, Servers
<1>3. CASE AgentEnds(c)
  <2>1. cmd[c].pc = "agent" /\ Goes(c, "end", cmd[c].pid) /\ "end" \in Phases /\ cmd[c].pid \in Pids \cup {None}
    BY <1>1, <1>3, CommandOf DEF AgentEnds, Goes, Phases
  <2>2. /\ cmd' \in [Cmds -> Commands] /\ cmd'[c].pc = "end" /\ cmd'[c].what = cmd[c].what
        /\ \A d \in Cmds \ {c} : cmd'[d] = cmd[d]
    BY <1>1, <2>1, GoesOn
  <2>3. ManagerTypes' /\ Active(c)' /\ (orderly' => Underway(c)')
    BY <1>1, <1>2, <2>1, <2>2 DEF ManagerTypes, Active, Underway
  <2> QED BY <1>1, <2>2, <2>3, OthersIdle
<1>4. CASE SpawnTimeout(c)
  <2> DEFINE r == [cmd[c] EXCEPT !.spawn = None]
  <2>1. cmd' = [cmd EXCEPT ![c] = r]
    BY <1>1, <1>4 DEF SpawnTimeout, ManagerTypes
  <2>2. r \in Commands /\ r.pc = cmd[c].pc /\ r.pid = cmd[c].pid /\ r.what = cmd[c].what
    <3>1. cmd[c] \in Commands
      BY <1>1 DEF ManagerTypes
    <3>2. cmd[c] = [pc |-> cmd[c].pc, what |-> cmd[c].what, pid |-> cmd[c].pid, spawn |-> cmd[c].spawn]
      BY <1>1, CommandOf
    <3> DEFINE old == cmd[c]
    <3>3. r = [pc |-> old.pc, what |-> old.what, pid |-> old.pid, spawn |-> None]
      BY <3>2
    <3>4. old.pc \in Phases /\ old.pid \in Pids \cup {None}
      BY <1>1, <1>4, CommandOf DEF SpawnTimeout, Phases
    <3>5. /\ old.pc \in {"check", "stop", "attach", "spawn", "write", "await", "term", "gone", "agent", "end"}
          /\ old.what \in {"start", "stop", "restart", "run", "run bare"}
      BY <1>1, CommandOf
    <3> HIDE DEF old
    <3>6. [pc |-> old.pc, what |-> old.what, pid |-> old.pid, spawn |-> None] \in Commands
      BY <3>4, <3>5 DEF Commands
    <3> QED BY <3>3, <3>6 DEF old
  <2> HIDE DEF r
  <2>3. /\ cmd' \in [Cmds -> Commands] /\ cmd'[c].pc = cmd[c].pc /\ cmd'[c].pid = cmd[c].pid
        /\ cmd'[c].what = cmd[c].what
        /\ \A d \in Cmds \ {c} : cmd'[d] = cmd[d]
    BY <1>1, <2>1, <2>2 DEF ManagerTypes
  <2>4. ManagerTypes' /\ Active(c)' /\ (orderly' => Underway(c)')
    BY <1>1, <1>2, <2>3 DEF ManagerTypes, Active, Underway
  <2> QED BY <1>1, <2>3, <2>4, OthersIdle
<1>5. CASE End(c)
  <2>1. cmd[c].pc = "end" /\ cmd' = [cmd EXCEPT ![c] = NoCmd] /\ NoCmd \in Commands /\ NoCmd.pc = "none"
    BY <1>5 DEF End, NoCmd, Commands
  <2>2. /\ cmd' \in [Cmds -> Commands] /\ cmd'[c].pc = "none"
        /\ \A d \in Cmds \ {c} : cmd'[d] = cmd[d]
    BY <1>1, <2>1 DEF ManagerTypes
  <2>3. ManagerTypes' /\ ~Active(c)' /\ (orderly' => Known')
    BY <1>1, <1>2, <2>1, <2>2 DEF ManagerTypes, Active, Underway
  <2> QED BY <1>1, <2>2, <2>3, OthersIdle
<1> QED BY <1>3, <1>4, <1>5

(* What the operating system does: no process more is a server.            *)
LEMMA SystemKnows ==
  ASSUME ManagerInv, \/ \E p \in Pids : ComeUp(p)
                     \/ Fault \/ UNCHANGED server
  PROVE  ManagerInv'
<1>1. CASE UNCHANGED server
  BY <1>1 DEF ManagerInv, ManagerTypes, Known, Servers, Active, Underway, server
<1>2. ASSUME os' \in [Pids -> {None, "starting", "up", "other"}], UNCHANGED <<pidFile, cmd>>,
             orderly' => orderly, Servers' \subseteq Servers
      PROVE  ManagerInv'
  <2>1. ManagerTypes'
    BY <1>2 DEF ManagerInv, ManagerTypes
  <2>2. Known => Known'
    BY <1>2 DEF Known
  <2>3. ASSUME orderly', NEW c \in Cmds, Underway(c) PROVE Underway(c)'
    BY <1>2, <2>2, <2>3 DEF Underway
  <2> QED BY <1>2, <2>1, <2>2, <2>3 DEF ManagerInv, Active
<1>3. ASSUME NEW p \in Pids, ComeUp(p) PROVE ManagerInv'
  <2>1. /\ os[p] = "starting" /\ UNCHANGED <<pidFile, cmd, orderly>>
        /\ \/ os' = [os EXCEPT ![p] = None]
           \/ os' = [os EXCEPT ![p] = "up"]
    BY <1>3 DEF ComeUp
  <2>2. os \in [Pids -> {None, "starting", "up", "other"}]
    BY DEF ManagerInv, ManagerTypes
  <2>3. os' \in [Pids -> {None, "starting", "up", "other"}]
    BY <2>1, <2>2
  <2>4. Servers' \subseteq Servers
    BY <2>1, <2>2, ManagerAssumption DEF Servers, ManagerAssumption
  <2> QED BY <1>2, <2>1, <2>3, <2>4
<1>4. ASSUME NEW p \in Pids, os' = [os EXCEPT ![p] = None], UNCHANGED <<pidFile, cmd, orderly>>
      PROVE  ManagerInv'
  <2>1. os \in [Pids -> {None, "starting", "up", "other"}]
    BY DEF ManagerInv, ManagerTypes
  <2>2. os' \in [Pids -> {None, "starting", "up", "other"}]
    BY <1>4, <2>1
  <2>3. Servers' \subseteq Servers
    BY <1>4, <2>1, ManagerAssumption DEF Servers, ManagerAssumption
  <2> QED BY <1>2, <1>4, <2>2, <2>3
<1>5. ASSUME NEW p \in Pids, os[p] = None, os' = [os EXCEPT ![p] = "other"], UNCHANGED <<pidFile, cmd, orderly>>
      PROVE  ManagerInv'
  <2>1. os \in [Pids -> {None, "starting", "up", "other"}]
    BY DEF ManagerInv, ManagerTypes
  <2>2. os' \in [Pids -> {None, "starting", "up", "other"}]
    BY <1>5, <2>1
  <2>3. Servers' \subseteq Servers
    BY <1>5, <2>1, ManagerAssumption DEF Servers, ManagerAssumption
  <2> QED BY <1>2, <1>5, <2>2, <2>3
<1>6. ASSUME NEW c \in Cmds, cmd' = [cmd EXCEPT ![c] = NoCmd], UNCHANGED <<os, pidFile>>, ~orderly'
      PROVE  ManagerInv'
  BY <1>6 DEF ManagerInv, ManagerTypes, NoCmd, Commands
<1>7. CASE Fault
  BY <1>4, <1>5, <1>6, <1>7 DEF Fault
<1> QED BY <1>1, <1>3, <1>7

(* OneServerKnown, for any commands, processes and faults: no more than one *)
(* server runs between orderly commands, the one the PID file names, and a  *)
(* stop leaves none.                                                        *)
THEOREM OneServerIsKnown == ManagerSpec => []OneServerKnown
<1>1. ManagerInit => ManagerInv
  <2> SUFFICES ASSUME ManagerInit PROVE ManagerInv
    OBVIOUS
  <2>1. ManagerTypes
    BY DEF ManagerInit, ManagerTypes, NoCmd, Commands
  <2>2. Servers = {} /\ \A c \in Cmds : cmd[c].pc = "none"
    BY ManagerAssumption DEF ManagerInit, Servers, NoCmd, ManagerAssumption
  <2> QED BY <2>1, <2>2 DEF ManagerInv, Active, Known, Underway
<1>2. ManagerInv /\ [ManagerNext]_server => ManagerInv'
  BY CommandKnows, CommandsKnow, EndersKnow, SystemKnows DEF ManagerNext
<1>3. ManagerInv => OneServerKnown
  <2> SUFFICES ASSUME ManagerInv, orderly PROVE OneServerKnown
    BY DEF OneServerKnown
  <2>1. (\A c \in Cmds : cmd[c].pc = "none") => Servers \subseteq {pidFile}
    BY DEF ManagerInv, Active, Known
  <2>2. ASSUME NEW c \in Cmds, cmd[c].pc = "end", cmd[c].what = "stop" PROVE Servers = {}
    BY <2>2 DEF ManagerInv, Underway
  <2> QED BY <2>1, <2>2 DEF OneServerKnown
<1> QED BY <1>1, <1>2, <1>3, PTL DEF ManagerSpec

---------------------------------------------------------------------------
(* The todo lists.  Two agents' names never become the same file name.     *)

SafeApart == \A r, q \in Runs : Safe[AgentOf[r]] = Safe[AgentOf[q]] => AgentOf[r] = AgentOf[q]

Ops == [kind : {"add", "update", "delete"}, item : Items] \cup [kind : {"clear", "init"}]

Calls ==
  [pc : {"none"}] \cup
  [pc : {"load", "open", "save"}, op : Ops, id : Ids, tasks : SUBSET Entries]

Calling(c) == call[c].pc # "none"
Listing(c) == Listed(c[1], call[c].id)
Init1(c)   == call[c].op.kind = "init"
Known1(r)  == runId[r] # None
OwnList(r) == Listed(r, runId[r])

TodoTypes ==
  /\ lists \in [Paths -> List \cup {None}]
  /\ call \in [Callers -> Calls] /\ time \in 0..MaxTime
  /\ \A c \in Callers : call[c].pc \in {"open", "save"} => call[c].op.kind # "clear"
  /\ runId \in [Runs -> Ids \cup {None}]
  /\ acked \in [Runs -> SUBSET Entries]

(* A call is about the list its run was answered; init comes first.        *)
CallsInTurn ==
  /\ \A c \in Callers : Calling(c) =>
       IF Init1(c) THEN ~Known1(c[1]) ELSE Known1(c[1]) /\ call[c].id = runId[c[1]]
  /\ \A c, d \in Callers : Calling(c) /\ Calling(d) /\ c[1] = d[1] /\ Init1(c) => c = d

(* Whatever two calls or two runs are about is disturbed.                  *)
SharedKnown ==
  /\ \A c, d \in Callers : Calling(c) /\ Calling(d) /\ c # d /\ Listing(c) = Listing(d) => Listing(c) \in disturbed
  /\ \A c \in Callers, r \in Runs :
       Calling(c) /\ c[1] # r /\ Known1(r) /\ Listing(c) = OwnList(r) => Listing(c) \in disturbed
  /\ \A r, q \in Runs : Known1(r) /\ Known1(q) /\ r # q /\ OwnList(r) = OwnList(q) => OwnList(r) \in disturbed

(* So is a list whose file is old enough to be cleaned up.                 *)
LapsedKnown ==
  \A r \in Runs, i \in Ids :
    LET found == lists[PathOf(r, i)] IN found # None /\ found.at + DayLength < time => Listed(r, i) \in disturbed

Own(r) == Known1(r) /\ OwnList(r) \notin disturbed

(* The list of a run of its own is as its calls left it, unless one is     *)
(* writing it; what a call is about to write follows from that.            *)
RunsKeep ==
  /\ \A r \in Runs : Own(r) /\ (\A c \in Callers : c[1] = r => call[c].pc # "save") =>
       OnDisk(r) = acked[r]
  /\ \A c \in Callers : call[c].pc \in {"open", "save"} =>
       IF Init1(c) THEN call[c].tasks = {}
       ELSE Own(c[1]) => call[c].tasks = Changed(call[c].op, acked[c[1]])

TodoInv == TodoTypes /\ CallsInTurn /\ SharedKnown /\ LapsedKnown /\ RunsKeep

LEMMA CallOf ==
  ASSUME TodoTypes, NEW c \in Callers, Calling(c)
  PROVE  /\ c[1] \in Runs /\ call[c].pc \in {"load", "open", "save"} /\ call[c].op \in Ops
         /\ call[c].id \in Ids /\ call[c].tasks \in SUBSET Entries
         /\ PathOf(c[1], call[c].id) \in Paths
<1>1. c[1] \in Runs
  BY TodoAssumption DEF TodoAssumption
<1>2. call[c] \in [pc : {"load", "open", "save"}, op : Ops, id : Ids, tasks : SUBSET Entries]
  BY DEF TodoTypes, Calls, Calling
<1> QED BY <1>1, <1>2 DEF PathOf, Paths

LEMMA ChangedIn ==
  ASSUME NEW op \in Ops, op.kind # "clear", NEW tasks \in SUBSET Entries
  PROVE  Changed(op, tasks) \in (SUBSET Entries) \cup {None}
<1>1. CASE op.kind = "init"
  BY <1>1 DEF Changed
<1>2. CASE op.kind # "init"
  <2>1. op.kind \in {"add", "update", "delete"} /\ op.item \in Items
    BY <1>2 DEF Ops
  <2>2. Task(op.item, "pending") \in Entries /\ Task(op.item, "completed") \in Entries
    BY <2>1 DEF Task, Entries
  <2>3. Add(tasks, op.item) \in SUBSET Entries
    BY <2>2 DEF Add
  <2> DEFINE others == {t \in tasks : t.item # op.item}
  <2>4. /\ others \in SUBSET Entries /\ others \cup {Task(op.item, "completed")} \in SUBSET Entries
    BY <2>2
  <2>5. /\ Update(tasks, op.item) \in {others \cup {Task(op.item, "completed")}, None}
        /\ Delete(tasks, op.item) \in {others, None}
    BY DEF Update, Delete
  <2>6. Changed(op, tasks) \in {Add(tasks, op.item), Update(tasks, op.item), Delete(tasks, op.item)}
    BY <2>1 DEF Changed
  <2> DEFINE u == others \cup {Task(op.item, "completed")}
  <2>7. Changed(op, tasks) \in {Add(tasks, op.item), others, u, None}
    BY <2>5, <2>6
  <2> HIDE DEF others, u
  <2> QED BY <2>3, <2>4, <2>7 DEF u
<1> QED BY <1>1, <1>2

LEMMA PathsApart ==
  ASSUME SafeApart, NEW r \in Runs, NEW q \in Runs, NEW i, NEW j, PathOf(r, i) = PathOf(q, j)
  PROVE  Listed(r, i) = Listed(q, j)
BY DEF SafeApart, PathOf, Listed

(* A list is written by a call, or cleared.                                *)
LEMMA ListWritten ==
  ASSUME TodoTypes, NEW p \in Paths, NEW v \in List \cup {None},
         lists' = [lists EXCEPT ![p] = v]
  PROVE  /\ lists' \in [Paths -> List \cup {None}]
         /\ lists'[p] = v /\ \A q \in Paths \ {p} : lists'[q] = lists[q]
BY DEF TodoTypes

(* What a step removes or writes lapses no list.                           *)
LEMMA NoneLapses ==
  ASSUME TodoTypes, LapsedKnown, time' = time, disturbed \subseteq disturbed',
         \A p \in Paths : lists'[p] \in {lists[p], None} \/ (lists'[p] # None /\ lists'[p].at = time)
  PROVE  LapsedKnown'
<1> SUFFICES ASSUME NEW r \in Runs, NEW i \in Ids,
                    lists'[PathOf(r, i)] # None, lists'[PathOf(r, i)].at + DayLength < time
             PROVE  Listed(r, i) \in disturbed'
  BY DEF LapsedKnown, PathOf, Listed
<1>1. PathOf(r, i) \in Paths
  BY DEF PathOf, Paths
<1>2. DayLength \in Nat /\ time \in Nat
  BY TodoAssumption DEF TodoAssumption, TodoTypes
<1>3. lists'[PathOf(r, i)].at # time
  BY <1>2
<1>4. lists'[PathOf(r, i)] = lists[PathOf(r, i)]
  BY <1>1, <1>3
<1> QED BY <1>4 DEF LapsedKnown

(* What a call becomes: done, or further on about the same list.           *)
Further(c, pc, tasks) ==
  \/ call' = [call EXCEPT ![c].pc = pc, ![c].tasks = tasks]
  \/ call' = [call EXCEPT ![c].pc = pc] /\ tasks = call[c].tasks

LEMMA CallFurther ==
  ASSUME TodoTypes, NEW c \in Callers, Calling(c), NEW pc \in {"open", "save"},
         NEW tasks \in SUBSET Entries, Further(c, pc, tasks)
  PROVE  /\ call' \in [Callers -> Calls]
         /\ call'[c].pc = pc /\ call'[c].op = call[c].op /\ call'[c].id = call[c].id /\ call'[c].tasks = tasks
         /\ \A d \in Callers \ {c} : call'[d] = call[d]
<1> DEFINE old == call[c]
           mid == [old EXCEPT !.pc = pc]
           Held == [pc : {"load", "open", "save"}, op : Ops, id : Ids, tasks : SUBSET Entries]
<1>1. old \in Held
  BY DEF TodoTypes, Calls, Calling
<1>2. mid \in Held /\ mid.pc = pc /\ mid.op = old.op /\ mid.id = old.id /\ mid.tasks = old.tasks
  BY <1>1
<1>3. ASSUME NEW m \in Held
      PROVE  LET n == [m EXCEPT !.tasks = tasks]
             IN  n \in Held /\ n.pc = m.pc /\ n.op = m.op /\ n.id = m.id /\ n.tasks = tasks
  BY <1>3
<1>4. PICK n \in Held : /\ call' = [call EXCEPT ![c] = n]
                       /\ n.pc = pc /\ n.op = old.op /\ n.id = old.id /\ n.tasks = tasks
  <2>1. CASE call' = [call EXCEPT ![c].pc = pc, ![c].tasks = tasks]
    <3>1. [old EXCEPT !.pc = pc, !.tasks = tasks] = [mid EXCEPT !.tasks = tasks]
      BY Zenon
    <3>2. call' = [call EXCEPT ![c] = [mid EXCEPT !.tasks = tasks]]
      BY <2>1, <3>1 DEF TodoTypes
    <3> HIDE DEF mid, Held, old
    <3> DEFINE n == [mid EXCEPT !.tasks = tasks]
    <3>3. n \in Held /\ n.pc = mid.pc /\ n.op = mid.op /\ n.id = mid.id /\ n.tasks = tasks
      BY <1>2, <1>3
    <3> HIDE DEF n
    <3>4. call' = [call EXCEPT ![c] = n]
      BY <3>2 DEF n
    <3> QED BY <1>2, <3>3, <3>4
  <2>2. CASE call' = [call EXCEPT ![c].pc = pc] /\ tasks = call[c].tasks
    BY <1>2, <2>2 DEF TodoTypes
  <2> QED BY <2>1, <2>2 DEF Further
<1>5. n \in Calls
  BY <1>4 DEF Calls
<1> HIDE DEF Held, old
<1> QED BY <1>4, <1>5 DEF TodoTypes, old

LEMMA CallDone ==
  ASSUME TodoTypes, NEW c \in Callers, call' = [call EXCEPT ![c] = NoCall]
  PROVE  /\ call' \in [Callers -> Calls] /\ call'[c].pc = "none"
         /\ \A d \in Callers \ {c} : call'[d] = call[d]
<1>1. NoCall \in Calls /\ NoCall.pc = "none"
  BY DEF NoCall, Calls
<1> QED BY <1>1 DEF TodoTypes

LEMMA CallStarted ==
  ASSUME TodoTypes, NEW c \in Callers, NEW pc \in {"load", "open"}, NEW op \in Ops, NEW id \in Ids,
         Start(c, pc, op, id)
  PROVE  /\ call[c].pc = "none" /\ call' \in [Callers -> Calls]
         /\ call'[c].pc = pc /\ call'[c].op = op /\ call'[c].id = id /\ call'[c].tasks = {}
         /\ \A d \in Callers \ {c} : call'[d] = call[d]
         /\ disturbed \subseteq disturbed'
         /\ Other(Listed(c[1], id), c) => Listed(c[1], id) \in disturbed'
<1> DEFINE r == [pc |-> pc, op |-> op, id |-> id, tasks |-> {}]
<1>1. r \in Calls /\ r.pc = pc /\ r.op = op /\ r.id = id /\ r.tasks = {}
  BY DEF Calls
<1>2. call[c].pc = "none" /\ call' = [call EXCEPT ![c] = r]
  BY DEF Start
<1> HIDE DEF r
<1>3. /\ call' \in [Callers -> Calls] /\ call'[c] = r
      /\ \A d \in Callers \ {c} : call'[d] = call[d]
  BY <1>1, <1>2 DEF TodoTypes
<1>4. disturbed \subseteq disturbed' /\ (Other(Listed(c[1], id), c) => Listed(c[1], id) \in disturbed')
  BY DEF Start
<1> QED BY <1>1, <1>2, <1>3, <1>4

(* What never turns a list into somebody's own, and keeps those there are. *)
LEMMA StillOwn ==
  ASSUME disturbed \subseteq disturbed', NEW r \in Runs, runId'[r] = runId[r], Own(r)'
  PROVE  Own(r)
BY DEF Own, Known1, OwnList, Listed

(* Nobody else's call is about a list of a run's own.                      *)
LEMMA OthersList ==
  ASSUME TodoInv, SafeApart, NEW c \in Callers, Calling(c), NEW r \in Runs, Own(r), c[1] # r
  PROVE  PathOf(c[1], call[c].id) # PathOf(r, runId[r])
<1> SUFFICES ASSUME PathOf(c[1], call[c].id) = PathOf(r, runId[r]) PROVE FALSE
  OBVIOUS
<1>1. c[1] \in Runs
  BY CallOf DEF TodoInv
<1>2. Listing(c) = OwnList(r)
  BY <1>1, PathsApart DEF Listing, OwnList
<1>3. Listing(c) \in disturbed
  BY <1>2 DEF TodoInv, SharedKnown, Own
<1> QED BY <1>2, <1>3 DEF Own

(* Two calls of a run at a time disturb its list.                          *)
LEMMA OneCallOwns ==
  ASSUME TodoInv, NEW c \in Callers, Calling(c), ~Init1(c), Own(c[1])
  PROVE  /\ Listing(c) = OwnList(c[1]) /\ call[c].id = runId[c[1]] /\ Known1(c[1])
         /\ \A d \in Callers : Calling(d) /\ d[1] = c[1] => d = c
<1>1. Listing(c) = OwnList(c[1]) /\ call[c].id = runId[c[1]] /\ Known1(c[1])
  BY DEF TodoInv, CallsInTurn, Listing, OwnList
<1>2. ASSUME NEW d \in Callers, Calling(d), d[1] = c[1], d # c PROVE FALSE
  <2>1. ~Init1(d)
    BY <1>2 DEF TodoInv, CallsInTurn
  <2>2. Listing(d) = Listing(c)
    BY <1>1, <1>2, <2>1 DEF TodoInv, CallsInTurn, Listing
  <2>3. Listing(c) \in disturbed
    BY <1>2, <2>2 DEF TodoInv, SharedKnown
  <2> QED BY <1>1, <2>3 DEF Own
<1> QED BY <1>1, <1>2

---------------------------------------------------------------------------
(* A call starts; init cleans up first, and no list of a run's own.        *)

LEMMA CleanedSpares ==
  ASSUME TodoTypes, LapsedKnown
  PROVE  /\ Cleaned \in [Paths -> List \cup {None}]
         /\ \A p \in Paths : Cleaned[p] \in {lists[p], None}
         /\ \A r \in Runs : Own(r) => Cleaned[PathOf(r, runId[r])] = lists[PathOf(r, runId[r])]
<1>1. \A p \in Paths : Cleaned[p] = IF Expired(lists[p]) THEN None ELSE lists[p]
  BY DEF Cleaned
<1>2. Cleaned \in [Paths -> List \cup {None}]
  BY DEF TodoTypes, Cleaned
<1>3. ASSUME NEW r \in Runs, Own(r)
      PROVE  Cleaned[PathOf(r, runId[r])] = lists[PathOf(r, runId[r])]
  <2>1. runId[r] \in Ids
    BY <1>3 DEF Own, Known1, TodoTypes
  <2>2. PathOf(r, runId[r]) \in Paths
    BY <2>1 DEF PathOf, Paths
  <2>3. ~Expired(lists[PathOf(r, runId[r])])
    BY <1>3, <2>1 DEF Expired, LapsedKnown, Own, OwnList
  <2> QED BY <1>1, <2>2, <2>3
<1> QED BY <1>1, <1>2, <1>3

LEMMA StartKeeps ==
  ASSUME TodoInv, NEW c \in Callers, NEW pc \in {"load", "open"}, NEW op \in Ops, NEW id \in Ids,
         Start(c, pc, op, id), UNCHANGED <<runId, time, acked>>,
         IF op.kind = "init"
         THEN lists' = Cleaned /\ runId[c[1]] = None /\ ~\E d \in Callers : d[1] = c[1] /\ call[d].pc # "none"
         ELSE lists' = lists /\ pc = "load" /\ runId[c[1]] # None /\ id = runId[c[1]]
  PROVE  TodoInv'
<1>1. /\ call[c].pc = "none" /\ call' \in [Callers -> Calls]
      /\ call'[c].pc = pc /\ call'[c].op = op /\ call'[c].id = id /\ call'[c].tasks = {}
      /\ \A d \in Callers \ {c} : call'[d] = call[d]
      /\ disturbed \subseteq disturbed'
      /\ Other(Listed(c[1], id), c) => Listed(c[1], id) \in disturbed'
  BY CallStarted DEF TodoInv
<1>0. /\ lists' \in [Paths -> List \cup {None}]
      /\ \A p \in Paths : lists'[p] \in {lists[p], None}
      /\ \A r \in Runs : Own(r) => lists'[PathOf(r, runId[r])] = lists[PathOf(r, runId[r])]
  <2>1. TodoTypes /\ LapsedKnown
    BY DEF TodoInv
  <2>2. lists' = Cleaned \/ lists' = lists
    OBVIOUS
  <2>3. CASE lists' = Cleaned
    BY <2>1, <2>3, CleanedSpares
  <2>4. CASE lists' = lists
    BY <2>1, <2>4 DEF TodoTypes
  <2> QED BY <2>2, <2>3, <2>4
<1>2. TodoTypes'
  <2>1. \A d \in Callers : call'[d].pc \in {"open", "save"} => call'[d].op.kind # "clear"
    BY <1>1 DEF TodoInv, TodoTypes
  <2> QED BY <1>0, <1>1, <2>1 DEF TodoInv, TodoTypes, Known1
<1>10. LapsedKnown'
  BY <1>0, <1>1, NoneLapses DEF TodoInv
<1>3. \A d \in Callers \ {c} : Calling(d)' = Calling(d) /\ Init1(d)' = Init1(d) /\ Listing(d)' = Listing(d)
  BY <1>1 DEF Calling, Init1, Listing, Listed
<1>4. Calling(c)' /\ (Init1(c)' <=> op.kind = "init") /\ Listing(c)' = Listed(c[1], id) /\ ~Calling(c)
  BY <1>1 DEF Calling, Init1, Listing, Listed
<1>5. \A r \in Runs : Known1(r)' = Known1(r) /\ OwnList(r)' = OwnList(r)
  BY DEF Known1, OwnList, Listed
<1>6. c[1] \in Runs /\ \A d \in Callers : d[1] \in Runs
  BY TodoAssumption DEF TodoAssumption
<1>7. CallsInTurn'
  <2>1. \A d \in Callers : Calling(d)' =>
          IF Init1(d)' THEN ~Known1(d[1])' ELSE Known1(d[1])' /\ call'[d].id = runId'[d[1]]
    BY <1>1, <1>3, <1>4, <1>5, <1>6 DEF TodoInv, CallsInTurn, Known1
  <2>2. ASSUME NEW d \in Callers, NEW e \in Callers, Calling(d)', Calling(e)', d[1] = e[1], Init1(d)', d # e
        PROVE  FALSE
    <3>1. CASE d = c
      BY <1>3, <1>4, <2>2, <3>1 DEF Calling
    <3>2. CASE e = c
      BY <1>3, <1>4, <2>2, <3>2 DEF TodoInv, CallsInTurn, Known1, Calling
    <3>3. CASE d # c /\ e # c
      BY <1>3, <2>2, <3>3 DEF TodoInv, CallsInTurn
    <3> QED BY <3>1, <3>2, <3>3
  <2> QED BY <2>1, <2>2 DEF CallsInTurn
<1>8. SharedKnown'
  <2>1. ASSUME NEW d \in Callers \ {c}, Calling(d)', Listing(c)' = Listing(d)'
        PROVE  Listing(c)' \in disturbed'
    <3>1. Other(Listed(c[1], id), c)
      BY <1>3, <1>4, <2>1 DEF Other, Calling, Listing
    <3> QED BY <1>1, <1>4, <3>1
  <2>2. ASSUME NEW r \in Runs, c[1] # r, Known1(r)', Listing(c)' = OwnList(r)'
        PROVE  Listing(c)' \in disturbed'
    <3>1. Other(Listed(c[1], id), c)
      BY <1>4, <1>5, <2>2 DEF Other, Known1, OwnList
    <3> QED BY <1>1, <1>4, <3>1
  <2>3. \A d, e \in Callers : Calling(d)' /\ Calling(e)' /\ d # e /\ Listing(d)' = Listing(e)' => Listing(d)' \in disturbed'
    <3> SUFFICES ASSUME NEW d \in Callers, NEW e \in Callers, Calling(d)', Calling(e)', d # e, Listing(d)' = Listing(e)'
                 PROVE  Listing(d)' \in disturbed'
      OBVIOUS
    <3>1. CASE d = c
      BY <2>1, <3>1
    <3>2. CASE e = c
      BY <2>1, <3>2
    <3>3. CASE d # c /\ e # c
      BY <1>1, <1>3, <3>3 DEF TodoInv, SharedKnown
    <3> QED BY <3>1, <3>2, <3>3
  <2>4. \A d \in Callers, r \in Runs :
          Calling(d)' /\ d[1] # r /\ Known1(r)' /\ Listing(d)' = OwnList(r)' => Listing(d)' \in disturbed'
    BY <1>1, <1>3, <1>5, <2>2 DEF TodoInv, SharedKnown
  <2>5. \A r, q \in Runs :
          Known1(r)' /\ Known1(q)' /\ r # q /\ OwnList(r)' = OwnList(q)' => OwnList(r)' \in disturbed'
    BY <1>1, <1>5 DEF TodoInv, SharedKnown
  <2> QED BY <2>3, <2>4, <2>5 DEF SharedKnown
<1>9. RunsKeep'
  <2>1. \A r \in Runs : Own(r)' => Own(r)
    BY <1>1, StillOwn
  <2>2. \A r \in Runs : Own(r) => OnDisk(r)' = OnDisk(r)
    BY <1>0 DEF OnDisk, PathOf
  <2>3. \A d \in Callers : call'[d].pc = "save" <=> call[d].pc = "save"
    BY <1>1
  <2>4. ASSUME NEW r \in Runs, Own(r)', \A d \in Callers : d[1] = r => call'[d].pc # "save"
        PROVE  OnDisk(r)' = acked'[r]
    BY <2>1, <2>2, <2>3, <2>4 DEF TodoInv, RunsKeep
  <2>5. ASSUME NEW d \in Callers, call'[d].pc \in {"open", "save"}
        PROVE  IF Init1(d)' THEN call'[d].tasks = {}
               ELSE Own(d[1])' => call'[d].tasks = Changed(call'[d].op, acked'[d[1]])
    <3>1. CASE d = c
      BY <1>1, <1>4, <2>5, <3>1
    <3>2. CASE d # c
      <4>1. call'[d] = call[d] /\ Init1(d)' = Init1(d)
        BY <1>1, <1>3, <3>2
      <4> QED BY <1>6, <2>1, <2>5, <4>1 DEF TodoInv, RunsKeep
    <3> QED BY <3>1, <3>2
  <2> QED BY <2>4, <2>5 DEF RunsKeep
<1> QED BY <1>2, <1>7, <1>8, <1>9, <1>10 DEF TodoInv

---------------------------------------------------------------------------
(* A call goes on about the list it started for, or is over.               *)

Moves(c) ==
  /\ \A d \in Callers \ {c} : call'[d] = call[d]
  /\ \/ call'[c].pc = "none"
     \/ call[c].pc # "none" /\ call'[c].op = call[c].op /\ call'[c].id = call[c].id

LEMMA MovesKnow ==
  ASSUME TodoInv, NEW c \in Callers, Moves(c), runId' = runId, disturbed \subseteq disturbed'
  PROVE  /\ CallsInTurn' /\ SharedKnown'
         /\ \A d \in Callers : Calling(d)' =>
              Calling(d) /\ Init1(d)' = Init1(d) /\ call'[d].id = call[d].id /\ call'[d].op = call[d].op
<1>1. \A d \in Callers : Calling(d)' =>
        /\ Calling(d) /\ Init1(d)' = Init1(d) /\ Listing(d)' = Listing(d)
        /\ call'[d].id = call[d].id /\ call'[d].op = call[d].op
  BY DEF Moves, Calling, Init1, Listing, Listed
<1>2. \A r \in Runs : Known1(r)' = Known1(r) /\ OwnList(r)' = OwnList(r)
  BY DEF Known1, OwnList, Listed
<1>3. \A d \in Callers : d[1] \in Runs
  BY TodoAssumption DEF TodoAssumption
<1>4. CallsInTurn'
  BY <1>1, <1>2, <1>3 DEF TodoInv, CallsInTurn
<1>5. SharedKnown'
  BY <1>1, <1>2, <1>3 DEF TodoInv, SharedKnown
<1> QED BY <1>1, <1>4, <1>5

(* So it keeps the rest when it keeps the types and what is kept.          *)
LEMMA MovesKeep ==
  ASSUME TodoInv, NEW c \in Callers, Moves(c), runId' = runId, time' = time, disturbed \subseteq disturbed',
         call' \in [Callers -> Calls], call'[c].pc \in {"open", "save"} => call[c].op.kind # "clear",
         lists' \in [Paths -> List \cup {None}],
         \A p \in Paths : lists'[p] \in {lists[p], None} \/ (lists'[p] # None /\ lists'[p].at = time),
         acked' \in [Runs -> SUBSET Entries]
  PROVE  /\ TodoTypes' /\ CallsInTurn' /\ SharedKnown' /\ LapsedKnown'
         /\ \A r \in Runs : Own(r)' => Own(r)
         /\ \A d \in Callers : Calling(d)' =>
              Calling(d) /\ Init1(d)' = Init1(d) /\ call'[d].id = call[d].id /\ call'[d].op = call[d].op
<1>1. /\ CallsInTurn' /\ SharedKnown'
      /\ \A d \in Callers : Calling(d)' =>
           Calling(d) /\ Init1(d)' = Init1(d) /\ call'[d].id = call[d].id /\ call'[d].op = call[d].op
  BY MovesKnow
<1>2. TodoTypes'
  <2>1. \A d \in Callers : call'[d].pc \in {"open", "save"} => call'[d].op.kind # "clear"
    BY <1>1 DEF Moves, TodoInv, TodoTypes, Calling
  <2> QED BY <2>1 DEF TodoInv, TodoTypes
<1>3. \A r \in Runs : Own(r)' => Own(r)
  BY StillOwn
<1>4. LapsedKnown'
  BY NoneLapses DEF TodoInv
<1> QED BY <1>1, <1>2, <1>3, <1>4

(* A call dies, the clock goes on.                                         *)
LEMMA KillKeeps == ASSUME TodoInv, NEW c \in Callers, KillCall(c) PROVE TodoInv'
<1>1. /\ Calling(c) /\ UNCHANGED <<lists, runId, time, acked>> /\ call' = [call EXCEPT ![c] = NoCall]
      /\ disturbed' = disturbed \cup {Listing(c)}
  BY DEF KillCall, Calling, Listing
<1>2. /\ call' \in [Callers -> Calls] /\ call'[c].pc = "none"
      /\ \A d \in Callers \ {c} : call'[d] = call[d]
  BY <1>1, CallDone DEF TodoInv
<1>3. Moves(c)
  BY <1>2 DEF Moves
<1>4. /\ TodoTypes' /\ CallsInTurn' /\ SharedKnown' /\ LapsedKnown'
      /\ \A r \in Runs : Own(r)' => Own(r)
      /\ \A d \in Callers : Calling(d)' => Init1(d)' = Init1(d)
  BY <1>1, <1>2, <1>3, MovesKeep DEF TodoInv, TodoTypes
<1>5. ASSUME NEW r \in Runs, Own(r)', \A d \in Callers : d[1] = r => call'[d].pc # "save"
      PROVE  OnDisk(r)' = acked'[r]
  <2>1. ASSUME c[1] = r PROVE call[c].pc # "save"
    <3> SUFFICES ASSUME call[c].pc = "save" PROVE FALSE
      OBVIOUS
    <3>1. ~Init1(c)
      BY <1>1, <1>5, <2>1 DEF TodoInv, CallsInTurn, Own, Known1
    <3>2. Listing(c) = OwnList(r) /\ OwnList(r)' = OwnList(r)
      BY <1>1, <2>1, <3>1 DEF TodoInv, CallsInTurn, Listing, OwnList, Listed
    <3> QED BY <1>1, <1>5, <3>2 DEF Own
  <2>2. \A d \in Callers : d[1] = r => call[d].pc # "save"
    BY <1>2, <1>5, <2>1
  <2>3. OnDisk(r) = acked[r]
    BY <1>4, <1>5, <2>2 DEF TodoInv, RunsKeep
  <2> QED BY <1>1, <2>3 DEF OnDisk, PathOf
<1>6. ASSUME NEW d \in Callers, call'[d].pc \in {"open", "save"}
      PROVE  IF Init1(d)' THEN call'[d].tasks = {}
             ELSE Own(d[1])' => call'[d].tasks = Changed(call'[d].op, acked'[d[1]])
  <2>1. d # c /\ call'[d] = call[d] /\ Init1(d)' = Init1(d)
    BY <1>2, <1>4, <1>6 DEF Calling
  <2>2. d[1] \in Runs
    BY TodoAssumption DEF TodoAssumption
  <2> QED BY <1>1, <1>4, <1>6, <2>1, <2>2 DEF TodoInv, RunsKeep
<1> QED BY <1>4, <1>5, <1>6 DEF TodoInv, RunsKeep

LEMMA TickKeeps == ASSUME TodoInv, Tick \/ UNCHANGED todos PROVE TodoInv'
<1>1. UNCHANGED <<lists, call, runId, acked>> /\ time' \in 0..MaxTime /\ disturbed \subseteq disturbed'
  BY TodoAssumption DEF TodoInv, TodoTypes, TodoAssumption, Tick, todos
<1>2. TodoTypes'
  BY <1>1 DEF TodoInv, TodoTypes, Calling, Known1
<1>3. CallsInTurn' /\ SharedKnown'
  BY <1>1 DEF TodoInv, CallsInTurn, SharedKnown, Calling, Init1, Known1, OwnList, Listing, Listed
<1>4. LapsedKnown'
  <2>1. CASE Tick
    <3> SUFFICES ASSUME NEW r \in Runs, NEW i \in Ids,
                        lists[PathOf(r, i)] # None, lists[PathOf(r, i)].at + DayLength < time + 1
                 PROVE  Listed(r, i) \in disturbed'
      BY <2>1, <1>1 DEF LapsedKnown, Tick, PathOf, Listed
    <3> DEFINE l == <<r, i>>
    <3>1. l \in Runs \X Ids /\ l[1] = r /\ l[2] = i
      OBVIOUS
    <3>2. Lapses(l)
      BY <3>1 DEF Lapses
    <3>3. Listed(l[1], l[2]) \in disturbed'
      BY <2>1, <3>1, <3>2 DEF Tick
    <3> QED BY <3>1, <3>3
  <2>2. CASE UNCHANGED todos
    BY <2>2 DEF TodoInv, LapsedKnown, todos, PathOf, Listed
  <2> QED BY <2>1, <2>2
<1>5. \A r \in Runs : Own(r)' => Own(r)
  BY <1>1, StillOwn
<1>6. ASSUME NEW r \in Runs, Own(r)', \A d \in Callers : d[1] = r => call'[d].pc # "save"
      PROVE  OnDisk(r)' = acked'[r]
  <2>1. OnDisk(r) = acked[r]
    BY <1>1, <1>5, <1>6 DEF TodoInv, RunsKeep
  <2> QED BY <1>1, <2>1 DEF OnDisk, PathOf
<1>7. ASSUME NEW d \in Callers, call'[d].pc \in {"open", "save"}
      PROVE  IF Init1(d)' THEN call'[d].tasks = {}
             ELSE Own(d[1])' => call'[d].tasks = Changed(call'[d].op, acked'[d[1]])
  <2>1. d[1] \in Runs /\ Init1(d)' = Init1(d)
    BY <1>1, TodoAssumption DEF TodoAssumption, Init1
  <2> QED BY <1>1, <1>5, <1>7, <2>1 DEF TodoInv, RunsKeep
<1> QED BY <1>2, <1>3, <1>4, <1>6, <1>7 DEF TodoInv, RunsKeep

---------------------------------------------------------------------------
(* A call reads its list.                                                  *)

LEMMA LoadKeeps == ASSUME TodoInv, SafeApart, NEW c \in Callers, Load(c) PROVE TodoInv'
<1> DEFINE op   == call[c].op
           path == PathOf(c[1], call[c].id)
           read == IF lists[path] = None THEN {} ELSE lists[path].tasks
           goes == read # Torn /\ Changed(op, read) # None
<1>1. /\ call[c].pc = "load" /\ op.kind # "clear" /\ Calling(c)
      /\ call' = IF goes THEN [call EXCEPT ![c].pc = "open", ![c].tasks = Changed(op, read)]
                 ELSE [call EXCEPT ![c] = NoCall]
      /\ UNCHANGED <<lists, runId, time, acked, disturbed>>
  BY DEF Load, Calling
<1>2. op \in Ops /\ path \in Paths /\ c[1] \in Runs
  BY <1>1, CallOf DEF TodoInv
<1>3. read # Torn => read \in SUBSET Entries
  <2>1. lists[path] \in List \cup {None}
    BY <1>2 DEF TodoInv, TodoTypes
  <2>2. \A l \in List : l.tasks \in (SUBSET Entries) \cup {Torn}
    BY DEF List
  <2> HIDE DEF path
  <2> QED BY <2>1, <2>2
<1> HIDE DEF op, path, read
<1>4. goes => Changed(op, read) \in SUBSET Entries
  BY <1>1, <1>2, <1>3, ChangedIn
<1> HIDE DEF goes
<1>5. /\ call' \in [Callers -> Calls]
      /\ \A d \in Callers \ {c} : call'[d] = call[d]
      /\ goes => /\ call'[c].pc = "open" /\ call'[c].op = op /\ call'[c].id = call[c].id
                 /\ call'[c].tasks = Changed(op, read)
      /\ ~goes => call'[c].pc = "none"
  <2>1. CASE goes
    <3>1. PICK tasks \in SUBSET Entries : tasks = Changed(op, read)
      BY <1>4, <2>1
    <3>2. Further(c, "open", tasks)
      BY <1>1, <2>1, <3>1 DEF Further
    <3>3. TodoTypes /\ Calling(c)
      BY <1>1 DEF TodoInv
    <3>4. /\ call' \in [Callers -> Calls]
          /\ call'[c].pc = "open" /\ call'[c].op = call[c].op /\ call'[c].id = call[c].id /\ call'[c].tasks = tasks
          /\ \A d \in Callers \ {c} : call'[d] = call[d]
      BY <3>2, <3>3, CallFurther
    <3> QED BY <2>1, <3>1, <3>4 DEF op
  <2>2. CASE ~goes
    BY <1>1, <2>2, CallDone DEF TodoInv
  <2> QED BY <2>1, <2>2
<1>6. Moves(c)
  BY <1>1, <1>5 DEF Moves, op
<1>8. /\ TodoTypes' /\ CallsInTurn' /\ SharedKnown' /\ LapsedKnown'
      /\ \A r \in Runs : Own(r)' => Own(r)
      /\ \A d \in Callers : Calling(d)' => Init1(d)' = Init1(d)
  <2>1. call'[c].pc \in {"open", "save"} => call[c].op.kind # "clear"
    BY <1>1 DEF op
  <2>2. lists' \in [Paths -> List \cup {None}] /\ acked' \in [Runs -> SUBSET Entries] /\ disturbed \subseteq disturbed'
    BY <1>1 DEF TodoInv, TodoTypes
  <2> QED BY <1>1, <1>5, <1>6, <2>1, <2>2, MovesKeep
<1>9. \A d \in Callers : call'[d].pc = "save" <=> call[d].pc = "save"
  BY <1>1, <1>5
<1>10. ASSUME NEW r \in Runs, Own(r)', \A d \in Callers : d[1] = r => call'[d].pc # "save"
       PROVE  OnDisk(r)' = acked'[r]
  <2>1. OnDisk(r) = acked[r]
    BY <1>8, <1>9, <1>10 DEF TodoInv, RunsKeep
  <2> QED BY <1>1, <2>1 DEF OnDisk, PathOf
<1>11. ASSUME goes, ~Init1(c), Own(c[1])
       PROVE  read = acked[c[1]]
  <2>1. call[c].id = runId[c[1]] /\ \A d \in Callers : Calling(d) /\ d[1] = c[1] => d = c
    BY <1>1, <1>11, OneCallOwns
  <2>2. \A d \in Callers : d[1] = c[1] => call[d].pc # "save"
    BY <1>1, <2>1 DEF Calling
  <2>3. OnDisk(c[1]) = acked[c[1]]
    BY <1>2, <1>11, <2>1, <2>2 DEF TodoInv, RunsKeep
  <2>4. OnDisk(c[1]) = read
    BY <2>1 DEF OnDisk, path, read
  <2> QED BY <2>3, <2>4
<1>12. ASSUME NEW d \in Callers, call'[d].pc \in {"open", "save"}
       PROVE  IF Init1(d)' THEN call'[d].tasks = {}
              ELSE Own(d[1])' => call'[d].tasks = Changed(call'[d].op, acked'[d[1]])
  <2>1. Init1(d)' = Init1(d) /\ d[1] \in Runs
    BY <1>8, <1>12, TodoAssumption DEF Calling, TodoAssumption
  <2>2. CASE d # c
    BY <1>1, <1>5, <1>8, <1>12, <2>1, <2>2 DEF TodoInv, RunsKeep
  <2>3. CASE d = c
    <3>1. goes
      BY <1>5, <1>12, <2>3
    <3>2. Init1(c) => Changed(op, read) = {}
      BY DEF Init1, Changed, op
    <3> QED BY <1>1, <1>2, <1>5, <1>8, <1>11, <2>1, <2>3, <3>1, <3>2
  <2> QED BY <2>2, <2>3
<1> QED BY <1>8, <1>10, <1>12 DEF TodoInv, RunsKeep

---------------------------------------------------------------------------
(* A call writes its list: no other run's own.                             *)

LEMMA WriteSpares ==
  ASSUME TodoInv, SafeApart, NEW c \in Callers, Calling(c), NEW v \in List \cup {None},
         v \in List => v.at = time,
         lists' = [lists EXCEPT ![PathOf(c[1], call[c].id)] = v]
  PROVE  /\ lists' \in [Paths -> List \cup {None}]
         /\ \A p \in Paths : lists'[p] \in {lists[p], None} \/ (lists'[p] # None /\ lists'[p].at = time)
         /\ lists'[PathOf(c[1], call[c].id)] = v
         /\ \A r \in Runs : Own(r) /\ c[1] # r =>
              lists'[PathOf(r, runId[r])] = lists[PathOf(r, runId[r])]
<1> DEFINE path == PathOf(c[1], call[c].id)
<1>1. path \in Paths
  BY CallOf DEF TodoInv
<1>2. \A r \in Runs : Own(r) => PathOf(r, runId[r]) \in Paths
  BY DEF Own, Known1, TodoInv, TodoTypes, PathOf, Paths
<1>3. \A r \in Runs : Own(r) /\ c[1] # r => path # PathOf(r, runId[r])
  BY OthersList
<1> HIDE DEF path
<1>4. /\ lists' \in [Paths -> List \cup {None}]
      /\ lists'[path] = v /\ \A q \in Paths \ {path} : lists'[q] = lists[q]
  <2>1. lists' = [lists EXCEPT ![path] = v]
    BY DEF path
  <2> QED BY <1>1, <2>1, ListWritten DEF TodoInv
<1>5. \A p \in Paths : lists'[p] \in {lists[p], None} \/ (lists'[p] # None /\ lists'[p].at = time)
  BY <1>4
<1> QED BY <1>2, <1>3, <1>4, <1>5 DEF path

(* Every other call and run finds what it found before: the step of c      *)
(* leaves the lists of the other runs, and their accounts.                 *)
LEMMA OthersKept ==
  ASSUME TodoInv, NEW c \in Callers, \A d \in Callers \ {c} : call'[d] = call[d],
         runId' = runId \/ (runId' = [runId EXCEPT ![c[1]] = call[c].id] /\ Init1(c) /\ Calling(c)),
         \A r \in Runs \ {c[1]} : acked'[r] = acked[r],
         \A r \in Runs \ {c[1]} : Own(r)' => Own(r),
         \A r \in Runs : Own(r) /\ c[1] # r =>
              lists'[PathOf(r, runId[r])] = lists[PathOf(r, runId[r])]
  PROVE  /\ \A r \in Runs \ {c[1]} :
              Own(r)' /\ (\A d \in Callers : d[1] = r => call'[d].pc # "save") =>
                OnDisk(r)' = acked'[r]
         /\ \A d \in Callers : d[1] # c[1] /\ call'[d].pc \in {"open", "save"} =>
              IF Init1(d)' THEN call'[d].tasks = {}
              ELSE Own(d[1])' => call'[d].tasks = Changed(call'[d].op, acked'[d[1]])
<1>1. \A r \in Runs \ {c[1]} : runId'[r] = runId[r]
  BY DEF TodoInv, TodoTypes
<1>2. ASSUME NEW r \in Runs \ {c[1]}, Own(r)', \A d \in Callers : d[1] = r => call'[d].pc # "save"
      PROVE  OnDisk(r)' = acked'[r]
  <2>1. Own(r) /\ \A d \in Callers : d[1] = r => call[d].pc # "save"
    BY <1>2
  <2>2. OnDisk(r) = acked[r]
    BY <2>1 DEF TodoInv, RunsKeep
  <2>3. lists'[PathOf(r, runId'[r])] = lists[PathOf(r, runId[r])]
    BY <1>1, <2>1
  <2>4. OnDisk(r)' = OnDisk(r)
    BY <2>3 DEF OnDisk, PathOf
  <2> QED BY <2>2, <2>3, <2>4
<1>3. ASSUME NEW d \in Callers, d[1] # c[1], call'[d].pc \in {"open", "save"}
      PROVE  IF Init1(d)' THEN call'[d].tasks = {}
             ELSE Own(d[1])' => call'[d].tasks = Changed(call'[d].op, acked'[d[1]])
  <2>1. call'[d] = call[d] /\ d[1] \in Runs \ {c[1]} /\ Init1(d)' = Init1(d)
    BY <1>3, TodoAssumption DEF TodoAssumption, Init1
  <2> QED BY <1>3, <2>1 DEF TodoInv, RunsKeep
<1> QED BY <1>2, <1>3

LEMMA OpenKeeps == ASSUME TodoInv, SafeApart, NEW c \in Callers, OpenList(c) PROVE TodoInv'
<1>1. /\ call[c].pc = "open" /\ Calling(c)
      /\ lists' = [lists EXCEPT ![PathOf(c[1], call[c].id)] = [tasks |-> Torn, at |-> time]]
      /\ call' = [call EXCEPT ![c].pc = "save"]
      /\ UNCHANGED <<runId, time, acked, disturbed>>
  BY DEF OpenList, Calling
<1>2. [tasks |-> Torn, at |-> time] \in List /\ [tasks |-> Torn, at |-> time].at = time
  BY DEF List, TodoInv, TodoTypes
<1>3. /\ lists' \in [Paths -> List \cup {None}]
      /\ \A p \in Paths : lists'[p] \in {lists[p], None} \/ (lists'[p] # None /\ lists'[p].at = time)
      /\ \A r \in Runs : Own(r) /\ c[1] # r =>
           lists'[PathOf(r, runId[r])] = lists[PathOf(r, runId[r])]
  BY <1>1, <1>2, WriteSpares
<1>4. /\ call' \in [Callers -> Calls] /\ call'[c].pc = "save" /\ call'[c].op = call[c].op
      /\ call'[c].id = call[c].id /\ call'[c].tasks = call[c].tasks
      /\ \A d \in Callers \ {c} : call'[d] = call[d]
  <2>1. Further(c, "save", call[c].tasks) /\ call[c].tasks \in SUBSET Entries
    BY <1>1, CallOf DEF TodoInv, Further
  <2> QED BY <1>1, <2>1, CallFurther DEF TodoInv
<1>5. Moves(c)
  BY <1>1, <1>4 DEF Moves
<1>6. /\ TodoTypes' /\ CallsInTurn' /\ SharedKnown' /\ LapsedKnown'
      /\ \A r \in Runs : Own(r)' => Own(r)
      /\ \A d \in Callers : Calling(d)' => Init1(d)' = Init1(d)
  <2>1. acked' \in [Runs -> SUBSET Entries] /\ call[c].op.kind # "clear" /\ disturbed \subseteq disturbed'
    BY <1>1 DEF TodoInv, TodoTypes
  <2> QED BY <1>1, <1>3, <1>4, <1>5, <2>1, MovesKeep
<1>7. /\ \A r \in Runs \ {c[1]} :
           Own(r)' /\ (\A d \in Callers : d[1] = r => call'[d].pc # "save") =>
             OnDisk(r)' = acked'[r]
      /\ \A d \in Callers : d[1] # c[1] /\ call'[d].pc \in {"open", "save"} =>
           IF Init1(d)' THEN call'[d].tasks = {}
           ELSE Own(d[1])' => call'[d].tasks = Changed(call'[d].op, acked'[d[1]])
  BY <1>1, <1>3, <1>4, <1>6, OthersKept
<1>8. ASSUME NEW d \in Callers, d[1] = c[1], call'[d].pc \in {"open", "save"}
      PROVE  IF Init1(d)' THEN call'[d].tasks = {}
             ELSE Own(d[1])' => call'[d].tasks = Changed(call'[d].op, acked'[d[1]])
  <2>1. Init1(d)' = Init1(d) /\ d[1] \in Runs /\ call'[d].tasks = call[d].tasks /\ call'[d].op = call[d].op
        /\ call[d].pc \in {"open", "save"}
    BY <1>1, <1>4, <1>6, <1>8, TodoAssumption DEF Calling, TodoAssumption
  <2> QED BY <1>1, <1>6, <2>1 DEF TodoInv, RunsKeep
<1>9. RunsKeep'
  BY <1>4, <1>7, <1>8 DEF RunsKeep
<1> QED BY <1>6, <1>9 DEF TodoInv

LEMMA ClearKeeps == ASSUME TodoInv, SafeApart, NEW c \in Callers, Clear(c) PROVE TodoInv'
<1>1. /\ call[c].pc = "load" /\ call[c].op.kind = "clear" /\ Calling(c) /\ ~Init1(c)
      /\ lists' = [lists EXCEPT ![PathOf(c[1], call[c].id)] = None]
      /\ acked' = [acked EXCEPT ![c[1]] = {}]
      /\ call' = [call EXCEPT ![c] = NoCall]
      /\ UNCHANGED <<runId, time, disturbed>>
  BY DEF Clear, Calling, Init1
<1>2. None \in List \cup {None} /\ None \notin List /\ c[1] \in Runs
  BY <1>1, CallOf, TodoAssumption DEF TodoInv, TodoAssumption
<1>3. /\ lists' \in [Paths -> List \cup {None}]
      /\ \A p \in Paths : lists'[p] \in {lists[p], None} \/ (lists'[p] # None /\ lists'[p].at = time)
      /\ lists'[PathOf(c[1], call[c].id)] = None
      /\ \A r \in Runs : Own(r) /\ c[1] # r =>
           lists'[PathOf(r, runId[r])] = lists[PathOf(r, runId[r])]
  BY <1>1, <1>2, WriteSpares
<1>4. /\ call' \in [Callers -> Calls] /\ call'[c].pc = "none"
      /\ \A d \in Callers \ {c} : call'[d] = call[d]
  BY <1>1, CallDone DEF TodoInv
<1>5. Moves(c)
  BY <1>4 DEF Moves
<1>6. /\ TodoTypes' /\ CallsInTurn' /\ SharedKnown' /\ LapsedKnown'
      /\ \A r \in Runs : Own(r)' => Own(r)
      /\ \A d \in Callers : Calling(d)' => Init1(d)' = Init1(d)
  <2>1. acked' \in [Runs -> SUBSET Entries] /\ disturbed \subseteq disturbed'
    BY <1>1 DEF TodoInv, TodoTypes
  <2> QED BY <1>1, <1>3, <1>4, <1>5, <2>1, MovesKeep
<1>7. /\ \A r \in Runs \ {c[1]} :
           Own(r)' /\ (\A d \in Callers : d[1] = r => call'[d].pc # "save") =>
             OnDisk(r)' = acked'[r]
      /\ \A d \in Callers : d[1] # c[1] /\ call'[d].pc \in {"open", "save"} =>
           IF Init1(d)' THEN call'[d].tasks = {}
           ELSE Own(d[1])' => call'[d].tasks = Changed(call'[d].op, acked'[d[1]])
  <2>1. \A r \in Runs \ {c[1]} : acked'[r] = acked[r]
    BY <1>1 DEF TodoInv, TodoTypes
  <2> QED BY <1>1, <1>3, <1>4, <1>6, <2>1, OthersKept
<1>8. ASSUME Own(c[1])'
      PROVE  /\ OnDisk(c[1])' = acked'[c[1]]
             /\ \A d \in Callers : d[1] = c[1] => call'[d].pc = "none"
  <2>1. /\ call[c].id = runId[c[1]] /\ \A d \in Callers : Calling(d) /\ d[1] = c[1] => d = c
    BY <1>1, <1>2, <1>6, <1>8, OneCallOwns
  <2>2. lists'[PathOf(c[1], runId'[c[1]])] = None
    BY <1>1, <1>3, <2>1
  <2>3. acked'[c[1]] = {} /\ OnDisk(c[1])' = {}
    BY <1>1, <1>2, <2>2 DEF OnDisk, PathOf, TodoInv, TodoTypes
  <2>4. \A d \in Callers : d[1] = c[1] => call'[d].pc = "none"
    BY <1>4, <2>1 DEF Calling
  <2> QED BY <1>2, <2>2, <2>3, <2>4
<1>9. ASSUME NEW d \in Callers, d[1] = c[1], call'[d].pc \in {"open", "save"}
      PROVE  IF Init1(d)' THEN call'[d].tasks = {}
             ELSE Own(d[1])' => call'[d].tasks = Changed(call'[d].op, acked'[d[1]])
  <2>1. d # c /\ call'[d] = call[d] /\ Init1(d)' = Init1(d) /\ Calling(d)
    BY <1>4, <1>6, <1>9 DEF Calling
  <2>2. ~Init1(d) => ~Own(d[1])'
    BY <1>8, <1>9
  <2> QED BY <1>9, <2>1, <2>2 DEF TodoInv, RunsKeep
<1>10. RunsKeep'
  BY <1>7, <1>8, <1>9 DEF RunsKeep
<1> QED BY <1>6, <1>10 DEF TodoInv

(* A save, and the first one of a run, which answers its id.               *)
LEMMA SaveFacts ==
  ASSUME TodoInv, SafeApart, NEW c \in Callers, Save(c)
  PROVE  /\ call[c].pc = "save" /\ Calling(c) /\ c[1] \in Runs /\ UNCHANGED <<time, disturbed>>
         /\ call[c].id \in Ids /\ call[c].tasks \in SUBSET Entries
         /\ runId' = IF Init1(c) THEN [runId EXCEPT ![c[1]] = call[c].id] ELSE runId
         /\ LET changed == Changed(call[c].op, acked[c[1]])
            IN  acked' = [acked EXCEPT ![c[1]] = IF changed = None THEN @ ELSE changed]
         /\ acked' \in [Runs -> SUBSET Entries]
         /\ \A r \in Runs \ {c[1]} : acked'[r] = acked[r]
         /\ call' \in [Callers -> Calls] /\ call'[c].pc = "none"
         /\ \A d \in Callers \ {c} : call'[d] = call[d]
         /\ lists' \in [Paths -> List \cup {None}]
         /\ \A p \in Paths : lists'[p] \in {lists[p], None} \/ (lists'[p] # None /\ lists'[p].at = time)
         /\ lists'[PathOf(c[1], call[c].id)] = [tasks |-> call[c].tasks, at |-> time]
         /\ \A r \in Runs : Own(r) /\ c[1] # r =>
              lists'[PathOf(r, runId[r])] = lists[PathOf(r, runId[r])]
<1>1. /\ call[c].pc = "save" /\ Calling(c) /\ UNCHANGED <<time, disturbed>>
      /\ lists' = [lists EXCEPT ![PathOf(c[1], call[c].id)] = [tasks |-> call[c].tasks, at |-> time]]
      /\ runId' = IF Init1(c) THEN [runId EXCEPT ![c[1]] = call[c].id] ELSE runId
      /\ acked' = [acked EXCEPT ![c[1]] = IF Changed(call[c].op, @) = None THEN @ ELSE Changed(call[c].op, @)]
      /\ call' = [call EXCEPT ![c] = NoCall]
  BY DEF Save, Calling, Init1
<1>2. c[1] \in Runs /\ call[c].op \in Ops /\ call[c].op.kind # "clear"
      /\ call[c].tasks \in SUBSET Entries /\ call[c].id \in Ids
  BY <1>1, CallOf DEF TodoInv, TodoTypes
<1> DEFINE v == [tasks |-> call[c].tasks, at |-> time]
<1>3. v \in List /\ v.at = time
  BY <1>2 DEF List, TodoInv, TodoTypes
<1>4. lists' = [lists EXCEPT ![PathOf(c[1], call[c].id)] = v]
  BY <1>1
<1>5. /\ lists' \in [Paths -> List \cup {None}]
      /\ \A p \in Paths : lists'[p] \in {lists[p], None} \/ (lists'[p] # None /\ lists'[p].at = time)
      /\ lists'[PathOf(c[1], call[c].id)] = v
      /\ \A r \in Runs : Own(r) /\ c[1] # r =>
           lists'[PathOf(r, runId[r])] = lists[PathOf(r, runId[r])]
  <2> HIDE DEF v
  <2> QED BY <1>1, <1>3, <1>4, WriteSpares
<1>6. /\ call' \in [Callers -> Calls] /\ call'[c].pc = "none"
      /\ \A d \in Callers \ {c} : call'[d] = call[d]
  BY <1>1, CallDone DEF TodoInv
<1> DEFINE old == acked[c[1]]
           new == IF Changed(call[c].op, old) = None THEN old ELSE Changed(call[c].op, old)
<1>7. new \in SUBSET Entries
  <2>1. old \in SUBSET Entries
    BY <1>2 DEF TodoInv, TodoTypes
  <2> HIDE DEF old
  <2>2. Changed(call[c].op, old) \in (SUBSET Entries) \cup {None}
    BY <1>2, <2>1, ChangedIn
  <2> QED BY <2>1, <2>2
<1>8. acked' = [acked EXCEPT ![c[1]] = new]
  BY <1>1
<1>9. acked' \in [Runs -> SUBSET Entries] /\ \A r \in Runs \ {c[1]} : acked'[r] = acked[r]
  <2> HIDE DEF new
  <2> QED BY <1>7, <1>8 DEF TodoInv, TodoTypes
<1> QED BY <1>1, <1>2, <1>5, <1>6, <1>8, <1>9

LEMMA SaveChangeKeeps == ASSUME TodoInv, SafeApart, NEW c \in Callers, Save(c), ~Init1(c) PROVE TodoInv'
<1>1. /\ call[c].pc = "save" /\ Calling(c) /\ c[1] \in Runs /\ UNCHANGED <<time, disturbed, runId>>
      /\ call[c].tasks \in SUBSET Entries
      /\ LET changed == Changed(call[c].op, acked[c[1]])
         IN  acked' = [acked EXCEPT ![c[1]] = IF changed = None THEN @ ELSE changed]
      /\ acked' \in [Runs -> SUBSET Entries]
      /\ \A r \in Runs \ {c[1]} : acked'[r] = acked[r]
      /\ call' \in [Callers -> Calls] /\ call'[c].pc = "none"
      /\ \A d \in Callers \ {c} : call'[d] = call[d]
      /\ lists' \in [Paths -> List \cup {None}]
      /\ \A p \in Paths : lists'[p] \in {lists[p], None} \/ (lists'[p] # None /\ lists'[p].at = time)
      /\ lists'[PathOf(c[1], call[c].id)] = [tasks |-> call[c].tasks, at |-> time]
      /\ \A r \in Runs : Own(r) /\ c[1] # r =>
           lists'[PathOf(r, runId[r])] = lists[PathOf(r, runId[r])]
  BY SaveFacts
<1>2. Moves(c)
  BY <1>1 DEF Moves
<1>3. /\ TodoTypes' /\ CallsInTurn' /\ SharedKnown' /\ LapsedKnown'
      /\ \A r \in Runs : Own(r)' => Own(r)
      /\ \A d \in Callers : Calling(d)' => Init1(d)' = Init1(d)
  <2> QED BY <1>1, <1>2, MovesKeep
<1>4. /\ \A r \in Runs \ {c[1]} :
           Own(r)' /\ (\A d \in Callers : d[1] = r => call'[d].pc # "save") =>
             OnDisk(r)' = acked'[r]
      /\ \A d \in Callers : d[1] # c[1] /\ call'[d].pc \in {"open", "save"} =>
           IF Init1(d)' THEN call'[d].tasks = {}
           ELSE Own(d[1])' => call'[d].tasks = Changed(call'[d].op, acked'[d[1]])
  BY <1>1, <1>3, OthersKept
<1>5. ASSUME Own(c[1])'
      PROVE  /\ OnDisk(c[1])' = acked'[c[1]]
             /\ \A d \in Callers : d[1] = c[1] => call'[d].pc = "none"
  <2>1. Own(c[1]) /\ call[c].id = runId[c[1]] /\ \A d \in Callers : Calling(d) /\ d[1] = c[1] => d = c
    BY <1>1, <1>3, <1>5, OneCallOwns
  <2> DEFINE l == lists'[PathOf(c[1], runId'[c[1]])]
  <2>2. l = [tasks |-> call[c].tasks, at |-> time]
    BY <1>1, <2>1
  <2>3. l \in List /\ l.tasks = call[c].tasks
    BY <1>1, <2>2 DEF List, TodoInv, TodoTypes
  <2>4. l # None
    BY <2>3, TodoAssumption DEF TodoAssumption
  <2>5. OnDisk(c[1])' = call[c].tasks
    BY <2>3, <2>4 DEF OnDisk, PathOf
  <2>6. call[c].tasks = Changed(call[c].op, acked[c[1]])
    BY <1>1, <2>1 DEF TodoInv, RunsKeep
  <2>7. call[c].tasks # None
    BY <1>1, TodoAssumption DEF TodoAssumption
  <2>8. acked'[c[1]] = call[c].tasks
    BY <1>1, <2>6, <2>7 DEF TodoInv, TodoTypes
  <2>9. \A d \in Callers : d[1] = c[1] => call'[d].pc = "none"
    BY <1>1, <2>1 DEF Calling
  <2> QED BY <2>5, <2>8, <2>9
<1>6. ASSUME NEW d \in Callers, d[1] = c[1], call'[d].pc \in {"open", "save"}
      PROVE  IF Init1(d)' THEN call'[d].tasks = {}
             ELSE Own(d[1])' => call'[d].tasks = Changed(call'[d].op, acked'[d[1]])
  <2>1. d # c /\ call'[d] = call[d] /\ Init1(d)' = Init1(d) /\ Calling(d)
    BY <1>1, <1>3, <1>6 DEF Calling
  <2>2. ~Init1(d) => ~Own(d[1])'
    BY <1>5, <1>6
  <2> QED BY <1>6, <2>1, <2>2 DEF TodoInv, RunsKeep
<1>7. RunsKeep'
  BY <1>4, <1>5, <1>6 DEF RunsKeep
<1> QED BY <1>3, <1>7 DEF TodoInv

LEMMA SaveInitKeeps == ASSUME TodoInv, SafeApart, NEW c \in Callers, Save(c), Init1(c) PROVE TodoInv'
<1> DEFINE me == c[1]
<1>1. /\ call[c].pc = "save" /\ Calling(c) /\ me \in Runs /\ UNCHANGED <<time, disturbed>>
      /\ call[c].id \in Ids /\ call[c].tasks \in SUBSET Entries
      /\ runId' = [runId EXCEPT ![me] = call[c].id]
      /\ LET changed == Changed(call[c].op, acked[me])
         IN  acked' = [acked EXCEPT ![me] = IF changed = None THEN @ ELSE changed]
      /\ acked' \in [Runs -> SUBSET Entries]
      /\ \A r \in Runs \ {me} : acked'[r] = acked[r]
      /\ call' \in [Callers -> Calls] /\ call'[c].pc = "none"
      /\ \A d \in Callers \ {c} : call'[d] = call[d]
      /\ lists' \in [Paths -> List \cup {None}]
      /\ \A p \in Paths : lists'[p] \in {lists[p], None} \/ (lists'[p] # None /\ lists'[p].at = time)
      /\ lists'[PathOf(me, call[c].id)] = [tasks |-> call[c].tasks, at |-> time]
      /\ \A r \in Runs : Own(r) /\ me # r =>
           lists'[PathOf(r, runId[r])] = lists[PathOf(r, runId[r])]
  BY SaveFacts
<1>2. /\ ~Known1(me) /\ \A d \in Callers : Calling(d) /\ d[1] = me => d = c
  BY <1>1 DEF TodoInv, CallsInTurn
<1>3. /\ runId' \in [Runs -> Ids \cup {None}] /\ runId'[me] = call[c].id
      /\ \A r \in Runs \ {me} : runId'[r] = runId[r]
  BY <1>1 DEF TodoInv, TodoTypes
<1>4. \A d \in Callers : d[1] \in Runs
  BY TodoAssumption DEF TodoAssumption
<1>5. \A d \in Callers : Calling(d)' =>
        /\ d # c /\ d[1] # me /\ Calling(d) /\ Init1(d)' = Init1(d) /\ Listing(d)' = Listing(d)
        /\ call'[d] = call[d]
  BY <1>1, <1>2 DEF Calling, Init1, Listing, Listed
<1>6. \A r \in Runs \ {me} : Known1(r)' = Known1(r) /\ OwnList(r)' = OwnList(r)
  BY <1>3 DEF Known1, OwnList, Listed
<1>7. OwnList(me)' = Listing(c)
  BY <1>3 DEF OwnList, Listing, Listed
<1>8. TodoTypes'
  <2>1. \A d \in Callers : call'[d].pc \in {"open", "save"} => call'[d].op.kind # "clear"
    BY <1>1 DEF TodoInv, TodoTypes
  <2> QED BY <1>1, <1>3, <2>1 DEF TodoInv, TodoTypes
<1>16. LapsedKnown'
  BY <1>1, NoneLapses DEF TodoInv
<1>9. CallsInTurn'
  BY <1>3, <1>4, <1>5, <1>6 DEF TodoInv, CallsInTurn
<1>10. SharedKnown'
  <2>1. \A d, e \in Callers : Calling(d)' /\ Calling(e)' /\ d # e /\ Listing(d)' = Listing(e)' => Listing(d)' \in disturbed'
    BY <1>1, <1>5 DEF TodoInv, SharedKnown
  <2>2. ASSUME NEW d \in Callers, NEW r \in Runs,
               Calling(d)', d[1] # r, Known1(r)', Listing(d)' = OwnList(r)'
        PROVE  Listing(d)' \in disturbed'
    <3>1. CASE r = me
      BY <1>1, <1>5, <1>7, <2>2, <3>1 DEF TodoInv, SharedKnown
    <3>2. CASE r # me
      BY <1>1, <1>5, <1>6, <2>2, <3>2 DEF TodoInv, SharedKnown
    <3> QED BY <3>1, <3>2
  <2>3. ASSUME NEW q \in Runs \ {me}, Known1(q), OwnList(q) = Listing(c)
        PROVE  Listing(c) \in disturbed'
    BY <1>1, <2>3 DEF TodoInv, SharedKnown
  <2>4. \A r, q \in Runs :
          Known1(r)' /\ Known1(q)' /\ r # q /\ OwnList(r)' = OwnList(q)' => OwnList(r)' \in disturbed'
    <3> SUFFICES ASSUME NEW r \in Runs, NEW q \in Runs,
                        Known1(r)', Known1(q)', r # q, OwnList(r)' = OwnList(q)'
                 PROVE  OwnList(r)' \in disturbed'
      OBVIOUS
    <3>1. CASE r = me
      BY <1>6, <1>7, <2>3, <3>1
    <3>2. CASE q = me
      BY <1>6, <1>7, <2>3, <3>2
    <3>3. CASE r # me /\ q # me
      BY <1>1, <1>6, <3>3 DEF TodoInv, SharedKnown
    <3> QED BY <3>1, <3>2, <3>3
  <2> QED BY <2>1, <2>2, <2>4 DEF SharedKnown
<1>11. \A r \in Runs \ {me} : Own(r)' => Own(r)
  BY <1>1, <1>3, StillOwn
<1>12. /\ \A r \in Runs \ {me} :
            Own(r)' /\ (\A d \in Callers : d[1] = r => call'[d].pc # "save") =>
              OnDisk(r)' = acked'[r]
       /\ \A d \in Callers : d[1] # me /\ call'[d].pc \in {"open", "save"} =>
            IF Init1(d)' THEN call'[d].tasks = {}
            ELSE Own(d[1])' => call'[d].tasks = Changed(call'[d].op, acked'[d[1]])
  BY <1>1, <1>11, OthersKept
<1>13. OnDisk(me)' = acked'[me]
  <2> DEFINE l == lists'[PathOf(me, runId'[me])]
  <2>1. l = [tasks |-> call[c].tasks, at |-> time]
    BY <1>1, <1>3
  <2>2. l \in List /\ l.tasks = call[c].tasks
    BY <1>1, <2>1 DEF List, TodoInv, TodoTypes
  <2>3. l # None
    BY <2>2, TodoAssumption DEF TodoAssumption
  <2>4. OnDisk(me)' = call[c].tasks
    BY <2>2, <2>3 DEF OnDisk, PathOf
  <2>5. call[c].tasks = {} /\ Changed(call[c].op, acked[me]) = {}
    BY <1>1 DEF TodoInv, RunsKeep, Init1, Changed
  <2>6. {} # None
    BY TodoAssumption DEF TodoAssumption
  <2>7. acked'[me] = {}
    BY <1>1, <2>5, <2>6 DEF TodoInv, TodoTypes
  <2> QED BY <2>4, <2>5, <2>7
<1>14. \A d \in Callers : call'[d].pc \in {"open", "save"} => d[1] # me
  BY <1>5 DEF Calling
<1>15. RunsKeep'
  BY <1>12, <1>13, <1>14 DEF RunsKeep
<1> QED BY <1>8, <1>9, <1>10, <1>15, <1>16 DEF TodoInv

LEMMA TodayIs == time \in 0..MaxTime => Today \in Ids
<1> SUFFICES ASSUME time \in 0..MaxTime PROVE time \div DayLength \in 0..MaxTime
  BY DEF Today, Ids
<1>1. ASSUME NEW t \in Nat, NEW n \in Nat \ {0} PROVE t \div n \in 0..t
  BY <1>1
<1> QED BY <1>1, TodoAssumption DEF TodoAssumption

LEMMA TodoStep == ASSUME TodoInv, SafeApart, [TodoNext]_todos PROVE TodoInv'
<1>1. ASSUME NEW c \in Callers, StartInit(c) PROVE TodoInv'
  <2> DEFINE op == [kind |-> "init"]
  <2>1. op \in Ops /\ op.kind = "init" /\ Today \in Ids
    BY TodayIs DEF TodoInv, TodoTypes, Ops
  <2>2. /\ Start(c, "open", op, Today) /\ UNCHANGED <<runId, time, acked>> /\ lists' = Cleaned
        /\ runId[c[1]] = None /\ ~\E d \in Callers : d[1] = c[1] /\ call[d].pc # "none"
    BY <1>1 DEF StartInit
  <2> HIDE DEF op
  <2> QED BY <2>1, <2>2, StartKeeps
<1>2. ASSUME NEW c \in Callers, StartChange(c) PROVE TodoInv'
  <2>1. PICK op \in [kind : {"add", "update", "delete"}, item : Items] \cup {[kind |-> "clear"]} :
          Start(c, "load", op, runId[c[1]])
    BY <1>2 DEF StartChange
  <2>2. op \in Ops /\ op.kind # "init"
    BY DEF Ops
  <2>3. runId[c[1]] # None /\ UNCHANGED <<lists, runId, time, acked>>
    BY <1>2 DEF StartChange
  <2>4. runId[c[1]] \in Ids
    BY <2>3, TodoAssumption DEF TodoInv, TodoTypes, TodoAssumption, Known1
  <2> QED BY <2>1, <2>2, <2>3, <2>4, StartKeeps
<1>3. ASSUME NEW c \in Callers, Save(c) PROVE TodoInv'
  BY <1>3, SaveChangeKeeps, SaveInitKeeps
<1> QED BY <1>1, <1>2, <1>3, LoadKeeps, OpenKeeps, ClearKeeps, KillKeeps, TickKeeps DEF TodoNext

(* TasksKept: as long as two agents' names never become the same file      *)
(* name, a run finds in its list exactly what its calls left, whatever the *)
(* other runs, their calls and their deaths do.                            *)
THEOREM TasksStay == ASSUME SafeApart PROVE TodoSpec => []TasksKept
<1>1. TodoInit => TodoInv
  <2> SUFFICES ASSUME TodoInit PROVE TodoInv
    OBVIOUS
  <2>3. NoCall \in Calls /\ NoCall.pc = "none"
    BY DEF NoCall, Calls
  <2>4. TodoTypes
    BY <2>3, TodoAssumption DEF TodoInit, TodoTypes, Calling, Known1, TodoAssumption
  <2>5. (\A c \in Callers : ~Calling(c)) /\ \A r \in Runs : ~Known1(r)
    BY <2>3 DEF TodoInit, Calling, Known1
  <2>6. CallsInTurn /\ SharedKnown
    BY <2>5 DEF CallsInTurn, SharedKnown
  <2>7. RunsKeep
    BY <2>5 DEF RunsKeep, Own, Calling
  <2>8. LapsedKnown
    BY DEF TodoInit, LapsedKnown, PathOf, Paths
  <2> QED BY <2>4, <2>6, <2>7, <2>8 DEF TodoInv
<1>2. TodoInv /\ [TodoNext]_todos => TodoInv'
  BY TodoStep
<1>3. TodoInv => TasksKept
  <2> SUFFICES ASSUME TodoInv, NEW r \in Runs, runId[r] # None, Quiet(r),
                      Listed(r, runId[r]) \notin disturbed
               PROVE  OnDisk(r) = acked[r]
    BY DEF TasksKept
  <2>1. Own(r) /\ \A c \in Callers : c[1] = r => call[c].pc # "save"
    BY DEF Own, Known1, OwnList, Quiet
  <2> QED BY <2>1 DEF TodoInv, RunsKeep
<1> QED BY <1>1, <1>2, <1>3, PTL DEF TodoSpec

---------------------------------------------------------------------------
(* An agent process whose events are fed to a tap.                         *)

Emits == {"match", "event", "noise", "long"}

StreamTypes ==
  /\ child = [state |-> child.state, lines |-> child.lines, held |-> child.held]
  /\ child.state \in {"none", "running", "asked", "exited"} /\ child.lines \in Seq(Emits)
  /\ tap \in Seq(Emits)
  /\ reader = [state |-> reader.state, read |-> reader.read]
  /\ reader.read \in 0..Len(child.lines)
  /\ wait = [pc |-> wait.pc, total |-> wait.total, quiet |-> wait.quiet]

(* The reader has delivered what it read; at its end, all there will be.   *)
StreamInv ==
  /\ StreamTypes
  /\ Delivered(reader.read)
  /\ reader.state = "ended" => child.state = "exited" /\ ~child.held /\ reader.read = Len(child.lines)
  /\ verdict = "exited" => reader.state = "ended"
  /\ wait.pc = "out" <=> child.state = "none"
  /\ child.state = "none" => reader.state = "none"
  /\ wait.pc = "left" => child.state = "exited" /\ reader.state # "reading"

LEMMA EventsCounted ==
  ASSUME NEW n \in Nat
  PROVE  IsFiniteSet(EventsAmong(n)) /\ Cardinality(EventsAmong(n)) \in Nat
<1>1. IsFiniteSet(1..n)
  BY FS_Interval
<1>2. EventsAmong(n) \subseteq 1..n
  BY DEF EventsAmong
<1> QED BY <1>1, <1>2, FS_Subset, FS_CardinalityType

(* What is delivered stays so while lines are only added.                  *)
LEMMA DeliveredStays ==
  ASSUME NEW n \in Nat, UNCHANGED tap, \A i \in 1..n : child'.lines[i] = child.lines[i], Delivered(n)
  PROVE  Delivered(n)'
<1>1. \A k \in 1..n : EventsAmong(k)' = EventsAmong(k)
  BY DEF EventsAmong
<1>2. EventsAmong(n)' = EventsAmong(n) /\ EventsAmong(n) \subseteq 1..n
  BY DEF EventsAmong
<1> QED BY <1>1, <1>2 DEF Delivered

(* One line more.                                                          *)
LEMMA LineDelivered ==
  ASSUME NEW n \in Nat, child.lines \in Seq(Emits), tap \in Seq(Emits), n < Len(child.lines), UNCHANGED child, Delivered(n),
         tap' = IF IsEvent(child.lines[n + 1]) THEN Append(tap, child.lines[n + 1]) ELSE tap
  PROVE  Delivered(n + 1)' /\ tap' \in Seq(Emits)
<1> PICK line, m : line = child.lines[n + 1] /\ m = n + 1
  OBVIOUS
<1>1. line \in Emits /\ m \in Nat /\ tap' \in Seq(Emits)
  BY DEF Emits
<1>2. \A k : EventsAmong(k)' = EventsAmong(k)
  BY DEF EventsAmong
<1>3. CASE ~IsEvent(line)
  <2>1. EventsAmong(m) = EventsAmong(n)
    BY <1>3 DEF EventsAmong
  <2>2. Delivered(m)'
    BY <1>2, <1>3, <2>1 DEF Delivered
  <2> QED BY <1>1, <2>2
<1>4. CASE IsEvent(line)
  <2>1. EventsAmong(m) = EventsAmong(n) \cup {m} /\ m \notin EventsAmong(n) /\ \A i \in EventsAmong(n) : i \in 1..n
    BY <1>4 DEF EventsAmong
  <2>2. Cardinality(EventsAmong(m)) = Cardinality(EventsAmong(n)) + 1
    BY <2>1, EventsCounted, FS_AddElement
  <2>3. /\ tap' = Append(tap, line) /\ Len(tap) = Cardinality(EventsAmong(n)) /\ Len(tap') = Len(tap) + 1
        /\ tap'[Len(tap) + 1] = line /\ \A k \in 1..Len(tap) : tap'[k] = tap[k]
    BY <1>1, <1>4 DEF Delivered
  <2>4. ASSUME NEW i \in EventsAmong(n) PROVE tap'[Cardinality(EventsAmong(i))] = child.lines[i]
    <3>1. Cardinality(EventsAmong(i)) \in 1..Len(tap)
      <4>1. i \in EventsAmong(i) /\ EventsAmong(i) \subseteq EventsAmong(n) /\ i \in Nat
        BY <2>1 DEF EventsAmong
      <4>2. Cardinality(EventsAmong(i)) <= Cardinality(EventsAmong(n))
        BY <4>1, EventsCounted, FS_Subset
      <4>3. Cardinality(EventsAmong(i)) # 0
        BY <4>1, EventsCounted, FS_EmptySet
      <4> QED BY <2>3, <4>1, <4>2, <4>3, EventsCounted
    <3>2. tap[Cardinality(EventsAmong(i))] = child.lines[i]
      BY DEF Delivered
    <3> QED BY <2>3, <3>1, <3>2
  <2>5. tap'[Cardinality(EventsAmong(m))] = child.lines[m]
    BY <2>2, <2>3
  <2>6. Delivered(m)'
    BY <1>2, <2>1, <2>2, <2>3, <2>4, <2>5 DEF Delivered
  <2> QED BY <1>1, <2>6
<1> QED BY <1>3, <1>4

LEMMA StreamSteps == StreamInv /\ [StreamNext]_stream => StreamInv'
<1> SUFFICES ASSUME StreamInv, [StreamNext]_stream PROVE StreamInv'
  OBVIOUS
<1> PICK n : n = reader.read
  OBVIOUS
<1>0. n \in Nat /\ n <= Len(child.lines) /\ Delivered(n) /\ Len(child.lines) \in Nat
  BY DEF StreamInv, StreamTypes
<1>1. ASSUME UNCHANGED <<tap, reader>>, child'.lines = child.lines PROVE Delivered(reader.read)'
  <2>1. Delivered(n)'
    BY <1>0, <1>1, DeliveredStays
  <2> QED BY <1>1, <2>1
<1>2. CASE Enter
  BY ZenonT(30), <1>2 DEF Enter, StreamInv, StreamTypes, Delivered, EventsAmong
<1>3. CASE WriteLine
  <2>1. PICK line \in Emits : child' = [child EXCEPT !.lines = Append(@, line)]
    BY <1>3 DEF WriteLine, Emits
  <2>2. /\ child'.lines = Append(child.lines, line) /\ child'.lines \in Seq(Emits)
        /\ Len(child'.lines) = Len(child.lines) + 1 /\ \A i \in 1..Len(child.lines) : child'.lines[i] = child.lines[i]
    BY <2>1 DEF StreamInv, StreamTypes
  <2>3. Delivered(n)'
    BY <1>0, <1>3, <2>2, DeliveredStays DEF WriteLine
  <2>4. /\ child' = [state |-> child.state, lines |-> child'.lines, held |-> child.held]
        /\ UNCHANGED <<tap, reader, wait, verdict>> /\ Running
    BY <1>3, <2>1 DEF WriteLine, StreamInv, StreamTypes
  <2> QED BY <1>0, <2>2, <2>3, <2>4 DEF StreamInv, StreamTypes, Running
<1>4. CASE Exit \/ ReleasePipe \/ Kill
  BY <1>1, <1>4 DEF Exit, ReleasePipe, Kill, Running, StreamInv, StreamTypes
<1>5. CASE ReadLine
  <2> PICK line : line = child.lines[n + 1]
    OBVIOUS
  <2>1. /\ reader.state = "reading" /\ n < Len(child.lines) /\ UNCHANGED <<child, verdict>>
        /\ tap' = IF IsEvent(line) THEN Append(tap, line) ELSE tap
        /\ wait'.pc = wait.pc /\ wait' = [pc |-> wait'.pc, total |-> wait'.total, quiet |-> wait'.quiet]
        /\ reader' = IF line = "long" THEN [reader EXCEPT !.state = "failed"] ELSE [reader EXCEPT !.read = n + 1]
    BY <1>5 DEF ReadLine, StreamInv, StreamTypes
  <2>2. Delivered(n + 1)' /\ tap' \in Seq(Emits)
    BY <1>0, <2>1, LineDelivered DEF StreamInv, StreamTypes
  <2>3. CASE line = "long"
    <3>1. UNCHANGED tap /\ reader' = [state |-> "failed", read |-> n]
      BY <2>1, <2>3 DEF IsEvent, StreamInv, StreamTypes
    <3>2. Delivered(n)'
      BY <1>0, <2>1, <3>1, DeliveredStays
    <3> QED BY <2>1, <3>1, <3>2 DEF StreamInv, StreamTypes
  <2>4. CASE line # "long"
    <3>1. reader' = [state |-> "reading", read |-> n + 1]
      BY <2>1, <2>4 DEF StreamInv, StreamTypes
    <3> QED BY <1>0, <2>1, <2>2, <3>1 DEF StreamInv, StreamTypes
  <2> QED BY <2>3, <2>4
<1>6. CASE ReadEnd
  <2>1. Delivered(n)'
    BY <1>0, <1>6, DeliveredStays DEF ReadEnd
  <2> QED BY <1>6, <2>1 DEF ReadEnd, Running, StreamInv, StreamTypes
<1>7. CASE BeginWait \/ PollIdle \/ PollEvent
  BY <1>1, <1>7 DEF BeginWait, PollIdle, PollEvent, OnExit, Return, Polled, StreamInv, StreamTypes
<1>8. CASE Drain
  <2>1. Delivered(n)'
    BY <1>0, <1>8, DeliveredStays DEF Drain
  <2> QED BY <1>8, <2>1 DEF Drain, Return, StreamInv, StreamTypes
<1>9. CASE Leave
  BY <1>1, <1>9 DEF Leave, Running, StreamInv, StreamTypes
<1>10. CASE Left
  <2>1. Delivered(n)'
    BY <1>0, <1>10, DeliveredStays DEF Left
  <2> QED BY <1>10, <2>1 DEF Left, Running, StreamInv, StreamTypes
<1>11. CASE UNCHANGED stream
  BY <1>1, <1>11 DEF stream, StreamInv, StreamTypes
<1> QED BY <1>2, <1>3, <1>4, <1>5, <1>6, <1>7, <1>8, <1>9, <1>10, <1>11 DEF StreamNext

(* A wait that answered that the process exited has left its caller every   *)
(* event there is, in order (long_running.py, _drain and _read_stdout): for *)
(* any lines, polls and time limits.                                       *)
THEOREM StreamsComplete == StreamSpec => []StreamComplete
<1>1. StreamInit => StreamInv
  <2> SUFFICES ASSUME StreamInit PROVE StreamInv
    OBVIOUS
  <2>1. EventsAmong(0) = {} /\ Len(tap) = 0 /\ tap \in Seq(Emits)
    BY DEF StreamInit, EventsAmong
  <2>2. Delivered(reader.read)
    BY <2>1, FS_EmptySet DEF Delivered, StreamInit
  <2> QED BY <2>1, <2>2 DEF StreamInit, StreamInv, StreamTypes
<1>2. StreamInv => StreamComplete
  BY DEF StreamInv, StreamTypes, StreamComplete, Running
<1> QED BY <1>1, <1>2, StreamSteps, PTL DEF StreamSpec

---------------------------------------------------------------------------
(* An init over a directory that users edit and that deaths leave half written. *)

(* Where an init is.                                                       *)
Filing   == init.pc \in {"files", "fill", "manifest"}
Skilling == init.pc \in {"skills", "body", "sidecar", "index"}
Later    == (Skilling \/ init.pc = "done") /\ init.c # None

FilingFields == {"pc", "c", "o", "todo", "open", "hashes", "previous", "skills", "at", "was"}
SkillFields  == {"pc", "c", "o", "at", "was", "skills", "force", "body", "again"}

ScaffoldShaped ==
  /\ DOMAIN disk = ToSet(Groups)
  /\ Filing => DOMAIN init = FilingFields /\ init.todo \subseteq FileMap(init.c)
  /\ init.pc = "fill" => init.open \in init.todo
  /\ init.pc = "manifest" => init.todo = {}
  /\ Skilling => DOMAIN init = SkillFields /\ init.skills \subseteq Dialects
  /\ Filing => init.skills \subseteq Dialects
  /\ init.pc \in {"body", "sidecar"} => init.body \in Dialects

(* What a manifest tells is what the files held when it was written.       *)
ManifestTells == \A f \in DOMAIN manifest.hashes : manifest.hashes[f] = left[f]

(* Which files an init may have changed.                                   *)
May(f) == init.at[f] = None \/ init.o = "all" \/ (Forced(init.o) /\ init.at[f] = init.was[f])

OnlyWhatMay == \A f \in DOMAIN disk : disk[f] # init.at[f] => May(f)

FilesVisited ==
  Filing =>
    /\ OnlyWhatMay
    /\ \A f \in init.todo : disk[f] = init.at[f] \/ (init.pc = "fill" /\ f = init.open)
    /\ init.pc = "fill" => May(init.open)
    /\ \A f \in DOMAIN init.hashes : f \in DOMAIN disk /\ f \notin init.todo /\ init.hashes[f] = disk[f]
    /\ \A f \in DOMAIN init.previous.hashes : init.previous.hashes[f] = init.was[f]

FilesLeft == Later => OnlyWhatMay /\ \A f \in DOMAIN manifest.hashes : manifest.hashes[f] = disk[f]

(* What holds of a configuration that every init had.                      *)
RegularAtRest(c) ==
  \A f \in DOMAIN disk :
    disk[f] # None => /\ f \in FileMap(c) /\ f \in DOMAIN manifest.hashes
                      /\ manifest.hashes[f] = disk[f]

RegularFiling(c) ==
  /\ c = init.c /\ Forced(init.o)
  /\ \A f \in DOMAIN disk :
       /\ disk[f] # None => f \in FileMap(c)
       /\ f \in init.todo /\ init.at[f] # None =>
            f \in DOMAIN init.previous.hashes /\ init.previous.hashes[f] = init.at[f]
       /\ f \in FileMap(c) /\ f \notin init.todo => disk[f] = Generated(c, f, version) /\ f \in DOMAIN init.hashes

RegularHolds ==
  /\ \A c \in regular : IF Filing THEN RegularFiling(c) ELSE RegularAtRest(c)
  /\ Later /\ init.c \in regular => \A f \in FileMap(init.c) : disk[f] = Generated(init.c, f, version)

BundlesHold ==
  /\ DOMAIN bundles = Dialects /\ \A d \in Dialects : DOMAIN bundles[d] = {"body", "sidecar"}
  /\ version \in Versions
  /\ \A d \in Dialects : bundles[d].sidecar = None \/ (bundles[d].sidecar \in Versions /\ bundles[d].sidecar <= version)
  /\ init.pc \in {"body", "sidecar"} /\ ~init.again => ~Fresh(init.body)
  /\ FreshIsWhole

ScaffoldInv == ScaffoldShaped /\ ManifestTells /\ FilesVisited /\ FilesLeft /\ RegularHolds /\ BundlesHold

-----------------------------------------------------------------------------
LEMMA FilesKnown == ASSUME NEW c PROVE FileMap(c) \subseteq ToSet(Groups)
<1>1. ToSet(Groups) = {"core", "registry", "improve", "web", "telegram", "cron", "sqlite", "db", "runs", "mcp", "personalized"}
  <2>1. DOMAIN Groups = 1..11
    BY DEF Groups
  <2>2. /\ Groups[1] = "core" /\ Groups[2] = "registry" /\ Groups[3] = "improve" /\ Groups[4] = "web"
        /\ Groups[5] = "telegram" /\ Groups[6] = "cron" /\ Groups[7] = "sqlite" /\ Groups[8] = "db"
        /\ Groups[9] = "runs" /\ Groups[10] = "mcp" /\ Groups[11] = "personalized"
    BY DEF Groups
  <2>3. \A i : i \in 1..11 <=> i \in {1, 2, 3, 4, 5, 6, 7, 8, 9, 10, 11}
    OBVIOUS
  <2>4. ToSet(Groups) = {Groups[i] : i \in {1, 2, 3, 4, 5, 6, 7, 8, 9, 10, 11}}
    BY <2>1, <2>3 DEF ToSet
  <2> QED BY <2>2, <2>4
<1> QED BY <1>1 DEF FileMap

LEMMA ScaffoldStarts == ScaffoldInit => ScaffoldInv
<1> SUFFICES ASSUME ScaffoldInit PROVE ScaffoldInv
  OBVIOUS
<1>1. /\ init.pc = "idle" /\ manifest.hashes = <<>> /\ version = 1 /\ \A f \in DOMAIN disk : disk[f] = None
      /\ DOMAIN disk = ToSet(Groups)
      /\ bundles = [d \in Dialects |-> [body |-> None, sidecar |-> None]]
  BY DEF ScaffoldInit, NoInit
<1>2. DOMAIN <<>> = {}
  OBVIOUS
<1>3. ScaffoldShaped /\ FilesVisited /\ FilesLeft
  BY <1>1 DEF ScaffoldShaped, FilesVisited, FilesLeft, Filing, Skilling, Later
<1>4. ManifestTells /\ RegularHolds
  BY <1>1, <1>2 DEF ManifestTells, RegularHolds, RegularAtRest, Filing, Skilling, Later
<1>5. BundlesHold
  BY <1>1, ScaffoldAssumption DEF BundlesHold, FreshIsWhole, Fresh
<1> QED BY <1>3, <1>4, <1>5 DEF ScaffoldInv

(* Steps that leave the files and what is known of them alone.             *)
LEMMA FilesUnchanged ==
  ASSUME ScaffoldInv, UNCHANGED <<disk, manifest, left, regular, version>>, ~Filing, ~Filing',
         ScaffoldShaped',
         Later' => Later /\ init'.c = init.c /\ init'.o = init.o /\ init'.at = init.at /\ init'.was = init.was
  PROVE  ManifestTells' /\ FilesVisited' /\ FilesLeft' /\ RegularHolds'
<1>1. ManifestTells' /\ FilesVisited'
  BY DEF ScaffoldInv, ManifestTells, FilesVisited
<1>2. FilesLeft'
  BY DEF ScaffoldInv, FilesLeft, OnlyWhatMay, May
<1>3. \A c \in regular' : RegularAtRest(c)'
  BY DEF ScaffoldInv, RegularHolds, RegularAtRest
<1>4. RegularHolds'
  BY <1>3 DEF ScaffoldInv, RegularHolds
<1> QED BY <1>1, <1>2, <1>4

(* Steps that leave the bundles alone.                                     *)
LEMMA BundlesUnchanged ==
  ASSUME BundlesHold, UNCHANGED <<bundles, version, torn>>,
         init.pc \notin {"body", "sidecar"}, init'.pc \notin {"body", "sidecar"}
  PROVE  BundlesHold'
<1>1. \A d \in Dialects : Fresh(d)' = Fresh(d) /\ ~Rewriting(d)
  BY DEF Fresh, Rewriting
<1>2. FreshIsWhole'
  BY <1>1 DEF BundlesHold, FreshIsWhole, Fresh
<1> QED BY <1>1, <1>2 DEF BundlesHold

LEMMA NotFiling == ASSUME ~Busy PROVE ~Filing /\ ~Skilling /\ init.pc \notin {"body", "sidecar", "fill", "manifest"}
BY DEF Busy, Filing, Skilling

LEMMA AtRest == NoInit.pc = "idle"
BY DEF NoInit

(* No init under way, and nothing known to be regular.                     *)
LEMMA RestHolds ==
  ASSUME ManifestTells', BundlesHold', DOMAIN disk' = ToSet(Groups), regular' = {}, init' = NoInit
  PROVE  ScaffoldInv'
<1>1. init'.pc = "idle"
  BY AtRest
<1> QED BY <1>1 DEF ScaffoldInv, ScaffoldShaped, FilesVisited, FilesLeft, RegularHolds, Filing, Skilling, Later

LEMMA EditFileHolds ==
  ASSUME ScaffoldInv, EditFile
  PROVE  ScaffoldInv'
<1>1. /\ ~Busy /\ regular' = {} /\ init' = NoInit /\ UNCHANGED <<manifest, version, left, torn>>
  BY DEF EditFile
<1>2. ManifestTells'
  BY <1>1 DEF ScaffoldInv, ManifestTells
<1>3. DOMAIN disk' = ToSet(Groups)
  BY DEF EditFile, ScaffoldInv, ScaffoldShaped
<1>4. BundlesHold'
  <2>1. CASE UNCHANGED bundles
    BY <1>1, <2>1, BundlesUnchanged, NotFiling, AtRest DEF ScaffoldInv
  <2>2. CASE \E d \in Dialects, x \in Texts : bundles' = [bundles EXCEPT ![d].body = x]
    <3>1. PICK d \in Dialects, x \in Texts : bundles' = [bundles EXCEPT ![d].body = x]
      BY <2>2
    <3>2. DOMAIN bundles = Dialects /\ \A e \in Dialects : DOMAIN bundles[e] = {"body", "sidecar"}
      BY DEF ScaffoldInv, BundlesHold
    <3>3. /\ DOMAIN bundles' = Dialects /\ \A e \in Dialects : DOMAIN bundles'[e] = {"body", "sidecar"}
          /\ \A e \in Dialects : bundles'[e].sidecar = bundles[e].sidecar
          /\ bundles'[d].body = x /\ \A e \in Dialects : e # d => bundles'[e].body = bundles[e].body
      BY <3>1, <3>2
    <3>4. \A e \in Dialects : Fresh(e)' = Fresh(e)
      BY <1>1, <3>3 DEF Fresh
    <3>5. \A e \in Dialects : ~Rewriting(e)
      BY <1>1, NotFiling DEF Rewriting
    <3>6. FreshIsWhole'
      BY <1>1, <3>3, <3>4, <3>5 DEF ScaffoldInv, BundlesHold, FreshIsWhole
    <3> QED BY <1>1, <3>3, <3>6, AtRest DEF ScaffoldInv, BundlesHold
  <2> QED BY <2>1, <2>2 DEF EditFile
<1> QED BY <1>1, <1>2, <1>3, <1>4, RestHolds

LEMMA DieInitHolds ==
  ASSUME ScaffoldInv, DieInit
  PROVE  ScaffoldInv'
<1>1. /\ Busy /\ regular' = {} /\ init' = NoInit /\ UNCHANGED <<disk, manifest, bundles, claudeMd, version, left>>
      /\ torn' = (torn \/ (init.pc \in {"body", "sidecar"} /\ init.again))
  BY DEF DieInit
<1>2. ManifestTells' /\ DOMAIN disk' = ToSet(Groups)
  BY <1>1 DEF ScaffoldInv, ManifestTells, ScaffoldShaped
<1>3. \A d \in Dialects : Fresh(d)' = Fresh(d)
  BY <1>1 DEF Fresh
<1>4. ASSUME ~torn', NEW d \in Dialects, Fresh(d) PROVE bundles[d].body \in Texts \cup {version}
  <2>1. ~torn /\ ~(init.pc \in {"body", "sidecar"} /\ init.again)
    BY <1>1, <1>4
  <2>2. ~Rewriting(d)
    BY <1>4, <2>1 DEF Rewriting, ScaffoldInv, BundlesHold
  <2> QED BY <1>4, <2>1, <2>2 DEF ScaffoldInv, BundlesHold, FreshIsWhole
<1>5. BundlesHold'
  BY <1>1, <1>3, <1>4, AtRest DEF ScaffoldInv, BundlesHold, FreshIsWhole
<1> QED BY <1>1, <1>2, <1>5, RestHolds

LEMMA UpgradeHolds ==
  ASSUME ScaffoldInv, Upgrade
  PROVE  ScaffoldInv'
<1>1. /\ ~Busy /\ version' = version + 1 /\ version' \in Versions /\ init' = NoInit
      /\ UNCHANGED <<disk, manifest, bundles, left, regular, torn>>
  BY DEF Upgrade
<1>2. ~Filing /\ ~Skilling
  BY <1>1, NotFiling
<1>3. init'.pc = "idle"
  BY <1>1, AtRest
<1>4. ScaffoldShaped' /\ ManifestTells' /\ FilesVisited' /\ FilesLeft'
  BY <1>1, <1>3 DEF ScaffoldInv, ScaffoldShaped, ManifestTells, FilesVisited, FilesLeft, Filing, Skilling, Later
<1>5. RegularHolds'
  BY <1>1, <1>2, <1>3 DEF ScaffoldInv, RegularHolds, RegularAtRest, Filing, Skilling, Later
<1>6. version \in Nat
  BY ScaffoldAssumption DEF ScaffoldInv, BundlesHold
<1>7. \A d \in Dialects : ~Fresh(d)'
  BY <1>1, <1>6, ScaffoldAssumption DEF Fresh, ScaffoldInv, BundlesHold
<1>8. \A d \in Dialects : bundles[d].sidecar = None \/ (bundles[d].sidecar \in Versions /\ bundles[d].sidecar <= version')
  <2> SUFFICES ASSUME NEW d \in Dialects, bundles[d].sidecar # None PROVE bundles[d].sidecar \in Versions /\ bundles[d].sidecar <= version'
    OBVIOUS
  <2>1. bundles[d].sidecar \in Versions /\ bundles[d].sidecar <= version
    BY DEF ScaffoldInv, BundlesHold
  <2>2. bundles[d].sidecar \in Nat
    BY <2>1, ScaffoldAssumption
  <2>3. PICK s \in Nat, v \in Nat : s = bundles[d].sidecar /\ v = version
    BY <1>6, <2>2
  <2>4. s <= v + 1
    BY <2>1, <2>3
  <2> QED BY <1>1, <2>1, <2>3, <2>4
<1>9. BundlesHold'
  BY <1>1, <1>3, <1>7, <1>8 DEF ScaffoldInv, BundlesHold, FreshIsWhole
<1> QED BY <1>4, <1>5, <1>9 DEF ScaffoldInv

LEMMA BeginInitHolds ==
  ASSUME ScaffoldInv, BeginInit
  PROVE  ScaffoldInv'
<1>1. PICK c \in Configs, o \in Overwriting, ds \in SUBSET Dialects :
        /\ init' = IF Refused(o) THEN [pc |-> "refused"]
                   ELSE [pc |-> "files", c |-> c, o |-> o, todo |-> FileMap(c), open |-> None, hashes |-> <<>>,
                         previous |-> manifest, skills |-> ds, at |-> disk, was |-> left]
        /\ regular' = IF Forced(o) THEN regular \cap {c} ELSE {}
  BY DEF BeginInit
<1>2. ~Busy /\ UNCHANGED <<disk, manifest, bundles, claudeMd, version, left, torn>>
  BY DEF BeginInit
<1>3. ~Filing /\ ~Skilling
  BY <1>2, NotFiling
<1>4. init'.pc \in {"refused", "files"}
  BY <1>1
<1>5. BundlesHold'
  BY <1>2, <1>4, BundlesUnchanged, NotFiling DEF ScaffoldInv
<1>6. ManifestTells'
  BY <1>2 DEF ScaffoldInv, ManifestTells
<1>7. CASE Refused(o)
  <2>1. init'.pc = "refused" /\ regular' = {}
    BY <1>1, <1>7 DEF Refused
  <2> QED BY <1>2, <1>5, <1>6, <2>1
          DEF ScaffoldInv, ScaffoldShaped, FilesVisited, FilesLeft, RegularHolds, Filing, Skilling, Later
<1>8. CASE ~Refused(o)
  <2>1. /\ init'.pc = "files" /\ init'.c = c /\ init'.o = o /\ init'.todo = FileMap(c) /\ init'.hashes = <<>>
        /\ init'.previous = manifest /\ init'.skills = ds /\ init'.at = disk /\ init'.was = left
        /\ DOMAIN init' = FilingFields
    BY <1>1, <1>8 DEF FilingFields
  <2>2. DOMAIN <<>> = {}
    OBVIOUS
  <2>3. ScaffoldShaped'
    BY <1>2, <2>1 DEF ScaffoldInv, ScaffoldShaped, Filing, Skilling
  <2>4. FilesVisited' /\ FilesLeft'
    BY <1>2, <1>6, <2>1, <2>2 DEF FilesVisited, FilesLeft, Filing, Skilling, Later, OnlyWhatMay, ManifestTells
  <2>5. ASSUME NEW d \in regular' PROVE RegularFiling(d)'
    <3>1. d \in regular /\ d = c /\ Forced(o)
      BY <1>1, <2>5
    <3>2. RegularAtRest(c)
      BY <1>3, <3>1 DEF ScaffoldInv, RegularHolds
    <3> QED BY <1>2, <2>1, <3>1, <3>2 DEF RegularAtRest, RegularFiling, Forced
  <2>6. RegularHolds'
    BY <2>1, <2>5 DEF RegularHolds, Filing, Skilling, Later
  <2> QED BY <1>5, <1>6, <2>3, <2>4, <2>6 DEF ScaffoldInv
<1> QED BY <1>7, <1>8

LEMMA VisitFileHolds ==
  ASSUME ScaffoldInv, VisitFile
  PROVE  ScaffoldInv'
<1>0. init.pc = "files" /\ Filing /\ UNCHANGED <<manifest, bundles, claudeMd, version, used, left, regular, torn>>
  BY DEF VisitFile, Filing
<1>10. PICK f \in init.todo :
        IF Writes(Classify(f, Generated(init.c, f, version), init.previous), init.o)
        THEN /\ disk' = [disk EXCEPT ![f] = Torn]
             /\ init' = [init EXCEPT !.pc = "fill", !.open = f]
        ELSE /\ init' = [init EXCEPT !.todo = @ \ {f},
                           !.hashes = Kept(f, Classify(f, Generated(init.c, f, version), init.previous),
                                           Generated(init.c, f, version))]
             /\ UNCHANGED disk
  BY DEF VisitFile
<1>11. PICK text : text = Generated(init.c, f, version)
  OBVIOUS
<1>12. PICK class : class = Classify(f, text, init.previous)
  OBVIOUS
<1>1. /\ text = Generated(init.c, f, version) /\ class = Classify(f, text, init.previous)
      /\ IF Writes(class, init.o)
         THEN /\ disk' = [disk EXCEPT ![f] = Torn]
              /\ init' = [init EXCEPT !.pc = "fill", !.open = f]
         ELSE /\ init' = [init EXCEPT !.todo = @ \ {f}, !.hashes = Kept(f, class, text)]
              /\ UNCHANGED disk
  BY <1>10, <1>11, <1>12
<1>2. /\ DOMAIN init = FilingFields /\ DOMAIN disk = ToSet(Groups) /\ init.todo \subseteq FileMap(init.c)
      /\ f \in DOMAIN disk /\ init.skills \subseteq Dialects
  BY <1>0, FilesKnown DEF ScaffoldInv, ScaffoldShaped
<1>3. /\ OnlyWhatMay /\ disk[f] = init.at[f]
      /\ \A g \in init.todo : disk[g] = init.at[g]
      /\ \A g \in DOMAIN init.hashes : g \in DOMAIN disk /\ g \notin init.todo /\ init.hashes[g] = disk[g]
      /\ \A g \in DOMAIN init.previous.hashes : init.previous.hashes[g] = init.was[g]
  BY <1>0 DEF ScaffoldInv, FilesVisited
<1>4. ManifestTells'
  BY <1>0 DEF ScaffoldInv, ManifestTells
<1>5. CASE Writes(class, init.o)
  <2>1. /\ disk' = [disk EXCEPT ![f] = Torn] /\ init'.pc = "fill" /\ init'.open = f /\ DOMAIN init' = FilingFields
        /\ init'.c = init.c /\ init'.o = init.o /\ init'.todo = init.todo /\ init'.hashes = init.hashes
        /\ init'.previous = init.previous /\ init'.at = init.at /\ init'.was = init.was /\ init'.skills = init.skills
    BY <1>1, <1>2, <1>5 DEF FilingFields
  <2>2. DOMAIN disk' = DOMAIN disk /\ \A g \in DOMAIN disk : g # f => disk'[g] = disk[g]
    BY <2>1
  <2>3. May(f)
    <3>1. CASE class = "fresh"
      BY <1>1, <1>3, <3>1 DEF Classify, May
    <3>2. CASE class = "framework"
      <4>1. Recorded(init.previous, f) = disk[f] /\ Recorded(init.previous, f) # None
        BY <1>1, <3>2 DEF Classify
      <4>2. init.at[f] = init.was[f]
        BY <1>3, <4>1 DEF Recorded
      <4> QED BY <1>5, <3>2, <4>2 DEF Writes, May
    <3>3. CASE class \notin {"fresh", "framework"}
      BY <1>5, <3>3 DEF Writes, May
    <3> QED BY <3>1, <3>2, <3>3
  <2>4. \A g : May(g)' <=> May(g)
    BY <2>1 DEF May
  <2>5. OnlyWhatMay'
    BY <1>3, <2>1, <2>2, <2>3, <2>4 DEF OnlyWhatMay
  <2>6. FilesVisited'
    BY <1>2, <1>3, <2>1, <2>2, <2>3, <2>4, <2>5 DEF FilesVisited, Filing
  <2>7. ScaffoldShaped' /\ FilesLeft'
    BY <1>2, <2>1, <2>2 DEF ScaffoldShaped, FilesLeft, Filing, Skilling, Later
  <2>8. RegularHolds'
    <3>1. \A c \in regular : RegularFiling(c)
      BY <1>0 DEF ScaffoldInv, RegularHolds
    <3>2. \A c \in regular : RegularFiling(c)'
      BY <1>0, <1>2, <2>1, <2>2, <3>1 DEF RegularFiling
    <3> QED BY <1>0, <2>1, <3>2 DEF RegularHolds, Filing, Skilling, Later
  <2>9. BundlesHold'
    BY <1>0, <2>1, BundlesUnchanged DEF ScaffoldInv
  <2> QED BY <1>4, <2>6, <2>7, <2>8, <2>9 DEF ScaffoldInv
<1>6. CASE ~Writes(class, init.o)
  <2>1. /\ disk' = disk /\ init'.pc = "files" /\ DOMAIN init' = FilingFields
        /\ init'.c = init.c /\ init'.o = init.o /\ init'.todo = init.todo \ {f} /\ init'.hashes = Kept(f, class, text)
        /\ init'.previous = init.previous /\ init'.at = init.at /\ init'.was = init.was /\ init'.skills = init.skills
    BY <1>0, <1>1, <1>2, <1>6 DEF FilingFields
  <2>2. \A g \in DOMAIN init'.hashes : g \in DOMAIN disk /\ g \notin init'.todo /\ init'.hashes[g] = disk[g]
    <3>1. class = "unchanged" => text = disk[f]
      BY <1>1 DEF Classify
    <3>2. Kept(f, class, text) \in {init.hashes, Note(f, disk[f])}
      BY <3>1 DEF Kept
    <3> QED BY <1>2, <1>3, <2>1, <3>2 DEF Note
  <2>3. \A g : May(g)' <=> May(g)
    BY <2>1 DEF May
  <2>4. OnlyWhatMay'
    BY <1>3, <2>1, <2>3 DEF OnlyWhatMay
  <2>5. FilesVisited'
    BY <1>3, <2>1, <2>2, <2>4 DEF FilesVisited, Filing
  <2>6. ScaffoldShaped' /\ FilesLeft'
    BY <1>2, <2>1 DEF ScaffoldShaped, FilesLeft, Filing, Skilling, Later
  <2>7. RegularHolds'
    <3>1. \A c \in regular : RegularFiling(c)
      BY <1>0 DEF ScaffoldInv, RegularHolds
    <3>2. ASSUME NEW c \in regular PROVE RegularFiling(c)'
      <4>1. RegularFiling(c)
        BY <3>1
      <4>2. DOMAIN init.hashes \subseteq DOMAIN init'.hashes
        BY <2>1 DEF Kept, Note
      <4>3. disk[f] = Generated(c, f, version) /\ f \in DOMAIN init'.hashes
        <5>1. c = init.c /\ Forced(init.o) /\ f \in DOMAIN disk
          BY <1>2, <4>1 DEF RegularFiling
        <5>2. class # "fresh" /\ class # "framework"
          BY <1>6, <5>1 DEF Writes
        <5>3. disk[f] # None
          BY <1>1, <5>2 DEF Classify
        <5>4. Recorded(init.previous, f) = disk[f]
          BY <1>3, <4>1, <5>1, <5>3 DEF RegularFiling, Recorded
        <5>5. class = "unchanged" /\ text = disk[f]
          BY <1>1, <5>2, <5>3, <5>4 DEF Classify
        <5> QED BY <1>1, <2>1, <5>1, <5>5 DEF Kept, Note
      <4> QED BY <1>0, <2>1, <4>1, <4>2, <4>3 DEF RegularFiling, Generated
    <3> QED BY <1>0, <2>1, <3>2 DEF RegularHolds, Filing, Skilling, Later
  <2>8. BundlesHold'
    BY <1>0, <2>1, BundlesUnchanged DEF ScaffoldInv
  <2> QED BY <1>4, <2>5, <2>6, <2>7, <2>8 DEF ScaffoldInv
<1> QED BY <1>5, <1>6

LEMMA FillFileHolds ==
  ASSUME ScaffoldInv, FillFile
  PROVE  ScaffoldInv'
<1>0. init.pc = "fill" /\ Filing /\ UNCHANGED <<manifest, bundles, claudeMd, version, used, left, regular, torn>>
  BY DEF FillFile, Filing
<1>1. PICK f, text : f = init.open /\ text = Generated(init.c, f, version)
  OBVIOUS
<1>2. /\ DOMAIN init = FilingFields /\ DOMAIN disk = ToSet(Groups) /\ init.todo \subseteq FileMap(init.c)
      /\ f \in init.todo /\ f \in DOMAIN disk /\ init.skills \subseteq Dialects
  BY <1>0, <1>1, FilesKnown DEF ScaffoldInv, ScaffoldShaped
<1>3. /\ disk' = [disk EXCEPT ![f] = text] /\ init'.pc = "files" /\ DOMAIN init' = FilingFields
      /\ init'.c = init.c /\ init'.o = init.o /\ init'.todo = init.todo \ {f} /\ init'.hashes = Note(f, text)
      /\ init'.previous = init.previous /\ init'.at = init.at /\ init'.was = init.was /\ init'.skills = init.skills
  BY <1>1, <1>2 DEF FillFile, FilingFields
<1>4. DOMAIN disk' = DOMAIN disk /\ disk'[f] = text /\ \A g \in DOMAIN disk : g # f => disk'[g] = disk[g]
  BY <1>2, <1>3
<1>5. /\ OnlyWhatMay /\ May(f)
      /\ \A g \in init.todo : g # f => disk[g] = init.at[g]
      /\ \A g \in DOMAIN init.hashes : g \in DOMAIN disk /\ g \notin init.todo /\ init.hashes[g] = disk[g]
      /\ \A g \in DOMAIN init.previous.hashes : init.previous.hashes[g] = init.was[g]
  BY <1>0, <1>1 DEF ScaffoldInv, FilesVisited
<1>6. \A g : May(g)' <=> May(g)
  BY <1>3 DEF May
<1>7. OnlyWhatMay'
  BY <1>3, <1>4, <1>5, <1>6 DEF OnlyWhatMay
<1>11. \A g \in DOMAIN init'.hashes : g \in DOMAIN disk' /\ g \notin init'.todo
  BY <1>2, <1>3, <1>4, <1>5 DEF Note
<1>13. \A g \in DOMAIN init'.hashes : init'.hashes[g] = disk'[g]
  BY <1>2, <1>3, <1>4, <1>5 DEF Note
<1>8. FilesVisited'
  <2>1. \A g \in init'.todo : disk'[g] = init'.at[g]
    BY <1>2, <1>3, <1>4, <1>5, FilesKnown
  <2> QED BY <1>3, <1>5, <1>7, <1>11, <1>13, <2>1 DEF FilesVisited, Filing
<1>9. ScaffoldShaped' /\ FilesLeft' /\ ManifestTells'
  BY <1>0, <1>2, <1>3, <1>4
     DEF ScaffoldInv, ScaffoldShaped, FilesLeft, ManifestTells, Filing, Skilling, Later
<1>10. RegularHolds'
  <2>1. ASSUME NEW c \in regular PROVE RegularFiling(c)'
    <3>1. RegularFiling(c)
      BY <1>0 DEF ScaffoldInv, RegularHolds
    <3>2. c = init.c /\ f \in FileMap(c) /\ text = Generated(c, f, version)
      BY <1>1, <1>2, <3>1 DEF RegularFiling
    <3>3. DOMAIN init'.hashes = DOMAIN init.hashes \cup {f}
      BY <1>3 DEF Note
    <3> QED BY <1>0, <1>3, <1>4, <3>1, <3>2, <3>3 DEF RegularFiling, Generated
  <2> QED BY <1>0, <1>3, <2>1 DEF RegularHolds, Filing, Skilling, Later
<1>14. BundlesHold'
  BY <1>0, <1>3, BundlesUnchanged DEF ScaffoldInv
<1> QED BY <1>8, <1>9, <1>10, <1>14 DEF ScaffoldInv

LEMMA OpenManifestHolds ==
  ASSUME ScaffoldInv, OpenManifest
  PROVE  ScaffoldInv'
<1>1. /\ init.pc = "files" /\ Filing /\ init.todo = {} /\ manifest' = [is |-> Torn, hashes |-> <<>>]
      /\ init' = [init EXCEPT !.pc = "manifest"] /\ UNCHANGED <<disk, bundles, version, left, regular, torn>>
  BY DEF OpenManifest, Filing
<1>2. DOMAIN init = FilingFields
  BY <1>1 DEF ScaffoldInv, ScaffoldShaped
<1>3. /\ init'.pc = "manifest" /\ DOMAIN init' = FilingFields /\ \A x \in FilingFields \ {"pc"} : init'[x] = init[x]
  BY <1>1, <1>2 DEF FilingFields
<1>4. /\ init'.c = init.c /\ init'.o = init.o /\ init'.todo = init.todo /\ init'.hashes = init.hashes
      /\ init'.previous = init.previous /\ init'.at = init.at /\ init'.was = init.was /\ init'.skills = init.skills
  BY <1>3 DEF FilingFields
<1>5. DOMAIN manifest'.hashes = {}
  BY <1>1
<1>6. ManifestTells' /\ ScaffoldShaped' /\ FilesLeft'
  BY <1>1, <1>3, <1>4, <1>5 DEF ScaffoldInv, ManifestTells, ScaffoldShaped, FilesLeft, Filing, Skilling, Later
<1>7. FilesVisited'
  BY <1>1, <1>3, <1>4 DEF ScaffoldInv, FilesVisited, OnlyWhatMay, May, Filing
<1>8. \A c \in regular : RegularFiling(c)'
  BY <1>1, <1>3, <1>4 DEF ScaffoldInv, RegularHolds, RegularFiling
<1>9. RegularHolds'
  BY <1>1, <1>3, <1>8 DEF RegularHolds, Filing, Skilling, Later
<1>10. BundlesHold'
  BY <1>1, <1>3, BundlesUnchanged DEF ScaffoldInv
<1> QED BY <1>6, <1>7, <1>9, <1>10 DEF ScaffoldInv

LEMMA FillManifestHolds ==
  ASSUME ScaffoldInv, FillManifest
  PROVE  ScaffoldInv'
<1>1. /\ init.pc = "manifest" /\ Filing /\ manifest' = [is |-> "whole", hashes |-> init.hashes] /\ left' = disk
      /\ init' = [pc |-> "skills", c |-> init.c, o |-> init.o, at |-> init.at, was |-> init.was, skills |-> init.skills,
                   force |-> Forced(init.o), body |-> None, again |-> FALSE]
      /\ UNCHANGED <<disk, bundles, version, regular, torn>>
  BY DEF FillManifest, Filing
<1>2. /\ init'.pc = "skills" /\ init'.c = init.c /\ init'.o = init.o /\ init'.at = init.at /\ init'.was = init.was
      /\ init'.skills = init.skills /\ DOMAIN init' = SkillFields /\ manifest'.hashes = init.hashes
  BY <1>1 DEF SkillFields
<1>3. /\ OnlyWhatMay /\ init.todo = {} /\ init.todo \subseteq FileMap(init.c) /\ init.skills \subseteq Dialects
      /\ \A f \in DOMAIN init.hashes : f \in DOMAIN disk /\ init.hashes[f] = disk[f]
  BY <1>1 DEF ScaffoldInv, FilesVisited, ScaffoldShaped
<1>4. ScaffoldShaped'
  BY <1>1, <1>2, <1>3 DEF ScaffoldInv, ScaffoldShaped, Filing, Skilling
<1>5. ManifestTells' /\ FilesVisited'
  BY <1>1, <1>2, <1>3 DEF ManifestTells, FilesVisited, Filing
<1>6. FilesLeft'
  BY <1>1, <1>2, <1>3 DEF FilesLeft, OnlyWhatMay, May
<1>7. ASSUME NEW c \in regular
      PROVE  c = init.c /\ RegularAtRest(c)' /\ \A f \in FileMap(c) : disk[f] = Generated(c, f, version)
  <2>1. RegularFiling(c)
    BY <1>1 DEF ScaffoldInv, RegularHolds
  <2>2. FileMap(c) \subseteq DOMAIN disk
    BY FilesKnown DEF ScaffoldInv, ScaffoldShaped
  <2> QED BY <1>1, <1>2, <1>3, <2>1, <2>2 DEF RegularFiling, RegularAtRest
<1>8. RegularHolds'
  <2>1. \A c \in regular' : RegularAtRest(c)'
    BY <1>1, <1>7
  <2>2. ASSUME init'.c \in regular', NEW f \in FileMap(init'.c) PROVE disk'[f] = Generated(init'.c, f, version')
    BY <1>1, <1>2, <1>7, <2>2
  <2> QED BY <1>2, <2>1, <2>2 DEF RegularHolds, Filing
<1>9. BundlesHold'
  BY <1>1, <1>2, BundlesUnchanged DEF ScaffoldInv
<1> QED BY <1>4, <1>5, <1>6, <1>8, <1>9 DEF ScaffoldInv

LEMMA BeginSyncHolds ==
  ASSUME ScaffoldInv, BeginSync
  PROVE  ScaffoldInv'
<1>1. PICK force \in BOOLEAN, ds \in SUBSET Dialects :
        init' = [pc |-> "skills", c |-> None, o |-> None, at |-> None, was |-> None, skills |-> ds, force |-> force,
                 body |-> None, again |-> FALSE]
  BY DEF BeginSync
<1>2. ~Busy /\ UNCHANGED <<disk, manifest, bundles, claudeMd, version, left, regular, torn>>
  BY DEF BeginSync
<1>3. /\ init'.pc = "skills" /\ init'.c = None /\ init'.skills = ds /\ DOMAIN init' = SkillFields
  BY <1>1 DEF SkillFields
<1>4. ~Filing /\ ~Filing' /\ ~Later'
  BY <1>2, <1>3, NotFiling DEF Filing, Later
<1>5. ScaffoldShaped'
  BY <1>2, <1>3 DEF ScaffoldInv, ScaffoldShaped, Filing, Skilling
<1>6. BundlesHold'
  BY <1>2, <1>3, BundlesUnchanged, NotFiling DEF ScaffoldInv
<1> QED BY <1>2, <1>4, <1>5, <1>6, FilesUnchanged DEF ScaffoldInv

LEMMA OpenSkillHolds ==
  ASSUME ScaffoldInv, OpenSkill
  PROVE  ScaffoldInv'
<1>0. init.pc = "skills" /\ Skilling /\ ~Filing /\ UNCHANGED <<disk, manifest, version, left, regular, torn>>
  BY DEF OpenSkill, Skilling, Filing
<1>1. PICK d \in init.skills :
       IF ~init.force /\ Fresh(d)
       THEN init' = [init EXCEPT !.pc = Emitted(d), !.skills = @ \ {d}] /\ UNCHANGED bundles
       ELSE /\ bundles' = [bundles EXCEPT ![d].body = Torn]
            /\ init' = [init EXCEPT !.pc = "body", !.body = d, !.again = Fresh(d)]
  BY DEF OpenSkill
<1>2. DOMAIN init = SkillFields /\ init.skills \subseteq Dialects /\ d \in Dialects
  BY <1>0 DEF ScaffoldInv, ScaffoldShaped
<1>3. CASE ~init.force /\ Fresh(d)
  <2>1. /\ init'.pc \in {"skills", "index"} /\ DOMAIN init' = SkillFields /\ init'.skills = init.skills \ {d} /\ bundles' = bundles
        /\ init'.c = init.c /\ init'.o = init.o /\ init'.at = init.at /\ init'.was = init.was
    BY <1>0, <1>1, <1>2, <1>3 DEF SkillFields, Emitted
  <2>2. ScaffoldShaped'
    BY <1>0, <1>2, <2>1 DEF ScaffoldInv, ScaffoldShaped, Filing, Skilling
  <2>3. BundlesHold'
    BY <1>0, <2>1, BundlesUnchanged DEF ScaffoldInv
  <2>4. ~Filing' /\ (Later' => Later)
    BY <1>0, <2>1 DEF Filing, Later
  <2> QED BY <1>0, <2>1, <2>2, <2>3, <2>4, FilesUnchanged DEF ScaffoldInv
<1>4. CASE ~(~init.force /\ Fresh(d))
  <2>1. /\ init'.pc = "body" /\ DOMAIN init' = SkillFields /\ init'.skills = init.skills /\ init'.body = d
        /\ init'.again = Fresh(d) /\ bundles' = [bundles EXCEPT ![d].body = Torn]
        /\ init'.c = init.c /\ init'.o = init.o /\ init'.at = init.at /\ init'.was = init.was
    BY <1>1, <1>2, <1>4 DEF SkillFields
  <2>2. ScaffoldShaped'
    BY <1>0, <1>2, <2>1 DEF ScaffoldInv, ScaffoldShaped, Filing, Skilling
  <2>3. ~Filing' /\ (Later' => Later)
    BY <1>0, <2>1 DEF Filing, Later
  <2>4. DOMAIN bundles = Dialects /\ \A e \in Dialects : DOMAIN bundles[e] = {"body", "sidecar"}
    BY DEF ScaffoldInv, BundlesHold
  <2>5. /\ DOMAIN bundles' = Dialects /\ \A e \in Dialects : DOMAIN bundles'[e] = {"body", "sidecar"}
        /\ \A e \in Dialects : bundles'[e].sidecar = bundles[e].sidecar
        /\ \A e \in Dialects : e # d => bundles'[e].body = bundles[e].body
    BY <1>2, <2>1, <2>4
  <2>6. \A e \in Dialects : Fresh(e)' = Fresh(e) /\ ~Rewriting(e)
    BY <1>0, <2>5 DEF Fresh, Rewriting
  <2>7. Rewriting(d)'
    BY <2>1 DEF Rewriting
  <2>8. ~init'.again => ~Fresh(init.body)'
    BY <1>2, <2>1, <2>5, <1>0 DEF Fresh
  <2>9. FreshIsWhole'
    BY <1>0, <2>5, <2>6, <2>7 DEF ScaffoldInv, BundlesHold, FreshIsWhole
  <2>10. BundlesHold'
    BY <1>0, <2>1, <2>5, <2>8, <2>9 DEF ScaffoldInv, BundlesHold
  <2> QED BY <1>0, <2>1, <2>2, <2>3, <2>10, FilesUnchanged DEF ScaffoldInv
<1> QED BY <1>3, <1>4

LEMMA FillSkillHolds ==
  ASSUME ScaffoldInv, FillSkill
  PROVE  ScaffoldInv'
<1>0. /\ init.pc = "body" /\ Skilling /\ ~Filing /\ UNCHANGED <<disk, manifest, version, left, regular, torn>>
      /\ bundles' = [bundles EXCEPT ![init.body].body = version] /\ init' = [init EXCEPT !.pc = "sidecar"]
  BY DEF FillSkill, Skilling, Filing, Body
<1>1. PICK d \in Dialects : d = init.body
  BY <1>0 DEF ScaffoldInv, ScaffoldShaped
<1>2. DOMAIN init = SkillFields /\ init.skills \subseteq Dialects
  BY <1>0 DEF ScaffoldInv, ScaffoldShaped
<1>3. /\ init'.pc = "sidecar" /\ DOMAIN init' = SkillFields /\ init'.skills = init.skills /\ init'.body = d
      /\ init'.again = init.again
      /\ init'.c = init.c /\ init'.o = init.o /\ init'.at = init.at /\ init'.was = init.was
  BY <1>0, <1>1, <1>2 DEF SkillFields
<1>4. ScaffoldShaped'
  BY <1>0, <1>2, <1>3 DEF ScaffoldInv, ScaffoldShaped, Filing, Skilling
<1>5. ~Filing' /\ (Later' => Later)
  BY <1>0, <1>3 DEF Filing, Later
<1>6. DOMAIN bundles = Dialects /\ \A e \in Dialects : DOMAIN bundles[e] = {"body", "sidecar"}
  BY DEF ScaffoldInv, BundlesHold
<1>7. /\ DOMAIN bundles' = Dialects /\ \A e \in Dialects : DOMAIN bundles'[e] = {"body", "sidecar"}
      /\ \A e \in Dialects : bundles'[e].sidecar = bundles[e].sidecar
      /\ \A e \in Dialects : e # d => bundles'[e].body = bundles[e].body
  BY <1>0, <1>1, <1>6
<1>8. \A e \in Dialects : Fresh(e)' = Fresh(e)
  BY <1>0, <1>7 DEF Fresh
<1>9. ~init'.again => ~Fresh(init.body)'
  <2>1. ~init.again => ~Fresh(d)
    BY <1>0, <1>1 DEF ScaffoldInv, BundlesHold
  <2> QED BY <1>0, <1>3, <1>7, <2>1 DEF Fresh
<1>10. FreshIsWhole'
  <2>1. Rewriting(d)' /\ \A e \in Dialects : e # d => ~Rewriting(e)
    BY <1>1, <1>3 DEF Rewriting
  <2> QED BY <1>0, <1>7, <1>8, <2>1 DEF ScaffoldInv, BundlesHold, FreshIsWhole
<1>11. BundlesHold'
  BY <1>0, <1>3, <1>7, <1>9, <1>10 DEF ScaffoldInv, BundlesHold
<1> QED BY <1>0, <1>3, <1>4, <1>5, <1>11, FilesUnchanged DEF ScaffoldInv

LEMMA WriteSidecarHolds ==
  ASSUME ScaffoldInv, WriteSidecar
  PROVE  ScaffoldInv'
<1>0. /\ init.pc = "sidecar" /\ Skilling /\ ~Filing /\ UNCHANGED <<disk, manifest, version, left, regular, torn>>
      /\ bundles' = [bundles EXCEPT ![init.body] = [body |-> version, sidecar |-> version]]
      /\ init' = [init EXCEPT !.pc = Emitted(init.body), !.skills = @ \ {init.body}, !.body = None]
  BY DEF WriteSidecar, Skilling, Filing
<1>1. PICK d \in Dialects : d = init.body
  BY <1>0 DEF ScaffoldInv, ScaffoldShaped
<1>2. DOMAIN init = SkillFields /\ init.skills \subseteq Dialects
  BY <1>0 DEF ScaffoldInv, ScaffoldShaped
<1>3. /\ init'.pc \in {"skills", "index"} /\ DOMAIN init' = SkillFields /\ init'.skills \subseteq Dialects
      /\ init'.c = init.c /\ init'.o = init.o /\ init'.at = init.at /\ init'.was = init.was
  BY <1>0, <1>2 DEF SkillFields, Emitted
<1>4. ScaffoldShaped'
  BY <1>0, <1>3 DEF ScaffoldInv, ScaffoldShaped, Filing, Skilling
<1>5. ~Filing' /\ (Later' => Later)
  BY <1>0, <1>3 DEF Filing, Later
<1>6. DOMAIN bundles = Dialects /\ \A e \in Dialects : DOMAIN bundles[e] = {"body", "sidecar"}
  BY DEF ScaffoldInv, BundlesHold
<1>7. /\ DOMAIN bundles' = Dialects /\ \A e \in Dialects : DOMAIN bundles'[e] = {"body", "sidecar"}
      /\ bundles'[d].body = version /\ bundles'[d].sidecar = version
      /\ \A e \in Dialects : e # d => bundles'[e] = bundles[e]
  BY <1>0, <1>1, <1>6
<1>8. version \in Versions /\ version <= version
  BY ScaffoldAssumption DEF ScaffoldInv, BundlesHold
<1>9. FreshIsWhole'
  <2>1. \A e \in Dialects : e # d => ~Rewriting(e)
    BY <1>1 DEF Rewriting
  <2> QED BY <1>0, <1>7, <2>1 DEF ScaffoldInv, BundlesHold, FreshIsWhole, Fresh
<1>10. \A e \in Dialects : bundles'[e].sidecar = None \/ (bundles'[e].sidecar \in Versions /\ bundles'[e].sidecar <= version)
  BY <1>7, <1>8 DEF ScaffoldInv, BundlesHold
<1>11. BundlesHold'
  BY <1>0, <1>3, <1>7, <1>8, <1>9, <1>10 DEF BundlesHold
<1> QED BY <1>0, <1>3, <1>4, <1>5, <1>11, FilesUnchanged DEF ScaffoldInv

LEMMA WriteIndexHolds ==
  ASSUME ScaffoldInv, WriteIndex
  PROVE  ScaffoldInv'
<1>0. /\ init.pc = "index" /\ Skilling /\ ~Filing /\ UNCHANGED <<disk, manifest, bundles, version, left, regular, torn>>
      /\ init' = [init EXCEPT !.pc = "skills"]
  BY DEF WriteIndex, Skilling, Filing
<1>1. DOMAIN init = SkillFields /\ init.skills \subseteq Dialects
  BY <1>0 DEF ScaffoldInv, ScaffoldShaped
<1>2. /\ init'.pc = "skills" /\ DOMAIN init' = SkillFields /\ init'.skills \subseteq Dialects
      /\ init'.c = init.c /\ init'.o = init.o /\ init'.at = init.at /\ init'.was = init.was
  BY <1>0, <1>1 DEF SkillFields
<1>3. ScaffoldShaped'
  BY <1>0, <1>2 DEF ScaffoldInv, ScaffoldShaped, Filing, Skilling
<1>4. ~Filing' /\ (Later' => Later)
  BY <1>0, <1>2 DEF Filing, Later
<1>5. BundlesHold'
  BY <1>0, <1>2, BundlesUnchanged DEF ScaffoldInv
<1> QED BY <1>0, <1>2, <1>3, <1>4, <1>5, FilesUnchanged DEF ScaffoldInv

LEMMA EndInitHolds ==
  ASSUME ScaffoldInv, EndInit
  PROVE  ScaffoldInv'
<1>1. /\ init.pc = "skills" /\ ~Filing /\ UNCHANGED <<disk, manifest, bundles, version, left, regular, torn>>
      /\ init'.pc = "done" /\ init'.c = init.c /\ init'.o = init.o /\ init'.at = init.at /\ init'.was = init.was
  BY DEF EndInit, Filing
<1>2. ScaffoldShaped'
  BY <1>1 DEF ScaffoldInv, ScaffoldShaped, Filing, Skilling
<1>3. ~Filing' /\ (Later' => Later)
  BY <1>1 DEF Filing, Later, Skilling
<1>4. BundlesHold'
  BY <1>1, BundlesUnchanged DEF ScaffoldInv
<1> QED BY <1>1, <1>2, <1>3, <1>4, FilesUnchanged DEF ScaffoldInv

LEMMA ScaffoldStep == ScaffoldInv /\ [ScaffoldNext]_scaffold => ScaffoldInv'
<1> SUFFICES ASSUME ScaffoldInv, [ScaffoldNext]_scaffold PROVE ScaffoldInv'
  OBVIOUS
<1>1. CASE UNCHANGED scaffold
  BY <1>1 DEF scaffold, ScaffoldInv, ScaffoldShaped, ManifestTells, FilesVisited, FilesLeft, RegularHolds, BundlesHold,
              Filing, Skilling, Later, OnlyWhatMay, May, RegularFiling, RegularAtRest, FreshIsWhole, Fresh, Rewriting
<1>2. CASE EditFile \/ DieInit \/ Upgrade \/ BeginInit
  BY <1>2, EditFileHolds, DieInitHolds, UpgradeHolds, BeginInitHolds
<1>3. CASE VisitFile \/ FillFile \/ OpenManifest \/ FillManifest
  BY <1>3, VisitFileHolds, FillFileHolds, OpenManifestHolds, FillManifestHolds
<1>4. CASE BeginSync \/ OpenSkill \/ FillSkill \/ WriteSidecar \/ WriteIndex \/ EndInit
  BY <1>4, BeginSyncHolds, OpenSkillHolds, FillSkillHolds, WriteSidecarHolds, WriteIndexHolds, EndInitHolds
<1> QED BY <1>1, <1>2, <1>3, <1>4 DEF ScaffoldNext

LEMMA ScaffoldSays == ScaffoldInv => ScaffoldKeepsWord
<1> SUFFICES ASSUME ScaffoldInv PROVE ScaffoldKeepsWord
  OBVIOUS
<1>1. LastEditKept
  BY DEF ScaffoldInv, FilesLeft, OnlyWhatMay, May, Forced, Later, Done, LastEditKept
<1>2. ForcedIsCurrent
  BY DEF ScaffoldInv, RegularHolds, Later, Done, ForcedIsCurrent
<1>3. FreshIsWhole
  BY DEF ScaffoldInv, BundlesHold
<1> QED BY <1>1, <1>2, <1>3 DEF ScaffoldKeepsWord

(* Whatever inits, syncs, edits, upgrades and deaths between two writes:   *)
(* an init not told to overwrite everything leaves alone what was edited   *)
(* since a manifest was last written, the manifest tells what the files    *)
(* hold, forced inits keep a project current, and a sidecar never vouches  *)
(* for another skill.  An edit a manifest has since recorded is not        *)
(* covered: the next forced init takes it for the framework's.             *)
THEOREM ScaffoldsKeepWord == ScaffoldSpec => []ScaffoldKeepsWord
<1>1. ScaffoldSpec => []ScaffoldInv
  BY ScaffoldStarts, ScaffoldStep, PTL DEF ScaffoldSpec
<1> QED BY <1>1, ScaffoldSays, PTL

---------------------------------------------------------------------------
(* The cron driver and the chat bot. *)

(* Time. *)
LEMMA Quarters ==
  ASSUME NEW t \in Nat
  PROVE  Minute(t) \in Nat /\ 4 * Minute(t) <= t /\ t < 4 * Minute(t) + 4
BY DEF Minute

LEMMA MinutesGrow ==
  ASSUME NEW t \in Nat, NEW u \in Nat, t <= u
  PROVE  Minute(t) \in Nat /\ Minute(u) \in Nat /\ Minute(t) <= Minute(u)
BY Quarters

LEMMA NextMinute ==
  ASSUME NEW t \in Nat, NEW u \in Nat, t <= u, u <= t + 4
  PROVE  Minute(u) <= Minute(t) + 1
BY Quarters

LEMMA LaterBy ==
  ASSUME NEW t \in Nat, NEW u \in Nat, t <= u, NEW p \in Nat
  PROVE  t + p + 1 \in Nat /\ u + p + 1 \in Nat /\ t <= t + p + 1 /\ t + p + 1 <= u + p + 1
OBVIOUS

(* What a minute that is over shows, if nothing lapsed in it.              *)
Counts(m) == m \in 0..Minutes /\ m > Minute(since) /\ m \notin lapses
Shown(m)  == \A e \in ToSet(Events) : m \in Due[e] => <<e, m>> \in fired

CronTypes ==
  /\ now \in Nat /\ (now = 0 \/ now < 4 * Minutes) /\ since \in Nat /\ since <= now
  /\ cron \in [pc : {"poll", "pass"}, minute : 0..Minutes, todo : Seq(ToSet(Events))]
  /\ fired \subseteq Keys
  /\ posted = [k \in Keys |-> IF k \in fired THEN 1 ELSE 0]

(* A pass: the minutes before its own are over; of its own, the events it   *)
(* has behind it are posted; and if a POST was slow, all minutes from its   *)
(* own to the one the sleep may reach have lapsed.                         *)
PassHolds ==
  /\ cron.minute <= Minute(now)
  /\ \A m : Counts(m) /\ m < cron.minute => Shown(m)
  /\ cron.minute \in lapses \/ \A e \in ToSet(Events) :
       e \in ToSet(cron.todo) \/ (cron.minute \in Due[e] => <<e, cron.minute>> \in fired)
  /\ cron.minute = Minute(now) \/ cron.minute..Minute(now + Poll + 1) \subseteq lapses

PollHolds == \A m : Counts(m) /\ m < Minute(now) => Shown(m)

CronInv ==
  /\ CronTypes
  /\ cron.pc = "pass" => PassHolds
  /\ cron.pc = "poll" => PollHolds

LEMMA MinuteKnown ==
  ASSUME DriversAssumption, CronTypes
  PROVE  Minute(now) \in 0..Minutes /\ Minutes \in Nat /\ Poll \in 1..3 /\ Minute(since) \in Nat
<1>1. now \in Nat /\ since \in Nat /\ Minutes \in Nat /\ (now = 0 \/ now < 4 * Minutes)
  BY DEF CronTypes, DriversAssumption
<1>2. Minute(now) \in Nat /\ 4 * Minute(now) <= now /\ Minute(since) \in Nat
  BY <1>1, Quarters
<1>3. Minute(now) <= Minutes
  BY <1>1, <1>2
<1> QED BY <1>1, <1>2, <1>3 DEF DriversAssumption

LEMMA CronStarts == DriversAssumption /\ DriversInit => CronInv
<1> SUFFICES ASSUME DriversAssumption, DriversInit PROVE CronInv
  OBVIOUS
<1>1. CronTypes
  BY DEF DriversAssumption, DriversInit, CronTypes
<1>2. PollHolds
  <2>1. Minute(now) = 0
    BY DEF DriversInit, Minute
  <2> QED BY <2>1 DEF PollHolds, Counts
<1> QED BY <1>1, <1>2 DEF CronInv, DriversInit

LEMMA WakeHolds ==
  ASSUME DriversAssumption, CronInv, Wake
  PROVE  CronInv'
<1>1. CronTypes /\ PollHolds /\ Minute(now) \in 0..Minutes /\ Minute(now)' = Minute(now)
  BY MinuteKnown DEF CronInv, Wake, Minute
<1>2. /\ cron' \in [pc : {"poll", "pass"}, minute : 0..Minutes, todo : Seq(ToSet(Events))]
      /\ cron'.pc = "pass" /\ cron'.minute = Minute(now)
      /\ lapses \subseteq lapses' /\ (cron'.todo = Events \/ Minute(now) \in lapses')
  <2>1. CASE cron' = [pc |-> "pass", minute |-> Minute(now), todo |-> Events] /\ lapses' = lapses
    <3>1. Events \in Seq(ToSet(Events))
      BY DEF DriversAssumption
    <3> QED BY <1>1, <2>1, <3>1
  <2>2. CASE cron' = [pc |-> "pass", minute |-> Minute(now), todo |-> <<>>] /\ lapses' = lapses \cup {Minute(now)}
    <3>1. <<>> \in Seq(ToSet(Events))
      OBVIOUS
    <3> QED BY <1>1, <2>2, <3>1
  <2> QED BY <2>1, <2>2 DEF Wake
<1>3. CronTypes'
  BY <1>1, <1>2 DEF Wake, CronTypes, Keys
<1>4. \A m : Counts(m)' /\ m < Minute(now) => Shown(m)'
  BY <1>1, <1>2 DEF PollHolds, Counts, Shown, Wake, Minute
<1>5. PassHolds'
  BY <1>1, <1>2, <1>4 DEF PassHolds
<1> QED BY <1>2, <1>3, <1>5 DEF CronInv

(* The first event of a pass and the rest. *)
LEMMA HeadAndRest ==
  ASSUME NEW S, NEW s \in Seq(S), s # <<>>
  PROVE  /\ Head(s) \in S /\ Tail(s) \in Seq(S)
         /\ \A e \in ToSet(s) : e = Head(s) \/ e \in ToSet(Tail(s))
<1>1. /\ Head(s) = s[1] /\ Tail(s) \in Seq(S) /\ Len(s) \in Nat /\ Len(s) > 0
      /\ Len(Tail(s)) = Len(s) - 1 /\ \A i \in 1..Len(Tail(s)) : Tail(s)[i] = s[i+1]
  BY HeadTailProperties, EmptySeq, LenProperties
<1>2. DOMAIN s = 1..Len(s) /\ DOMAIN Tail(s) = 1..Len(Tail(s))
  BY <1>1, LenProperties
<1>3. ASSUME NEW i \in DOMAIN s PROVE s[i] = Head(s) \/ s[i] \in ToSet(Tail(s))
  <2>1. CASE i = 1
    BY <1>1, <2>1
  <2>2. CASE i # 1
    <3>1. i - 1 \in 1..Len(Tail(s)) /\ i = (i - 1) + 1
      BY <1>1, <1>2, <2>2
    <3>2. Tail(s)[i - 1] = s[i]
      BY <1>1, <3>1
    <3> QED BY <1>2, <3>1, <3>2 DEF ToSet
  <2> QED BY <2>1, <2>2
<1>4. Head(s) \in S
  BY <1>1, <1>2
<1> QED BY <1>1, <1>3, <1>4 DEF ToSet

LEMMA FireHolds ==
  ASSUME DriversAssumption, CronInv, Fire
  PROVE  CronInv'
<1>1. CronTypes /\ PassHolds /\ Minute(now) \in 0..Minutes /\ Poll \in 1..3 /\ Minutes \in Nat
  BY MinuteKnown DEF CronInv, Fire
<1>2. PICK e : e = Head(cron.todo)
  OBVIOUS
<1>3. PICK k : k = <<e, cron.minute>>
  OBVIOUS
<1>4. /\ cron'.pc = "pass" /\ cron'.minute = cron.minute /\ cron'.todo = Tail(cron.todo)
      /\ cron' \in [pc : {"poll", "pass"}, minute : 0..Minutes, todo : Seq(ToSet(Events))]
      /\ e \in ToSet(Events) /\ \A d \in ToSet(cron.todo) : d = e \/ d \in ToSet(cron'.todo)
  <2>1. cron.todo \in Seq(ToSet(Events)) /\ cron.todo # <<>> /\ cron.pc = "pass" /\ cron.minute \in 0..Minutes
    BY <1>1 DEF Fire, CronTypes
  <2>2. /\ Tail(cron.todo) \in Seq(ToSet(Events)) /\ e \in ToSet(Events)
        /\ \A d \in ToSet(cron.todo) : d = e \/ d \in ToSet(Tail(cron.todo))
    BY <1>2, <2>1, HeadAndRest
  <2>3. cron' = [cron EXCEPT !.todo = Tail(@)]
    BY DEF Fire
  <2> QED BY <1>1, <2>1, <2>2, <2>3 DEF CronTypes
<1>5. CASE Seen(e) \/ ~Matches(e)
  <2>1. UNCHANGED <<now, fired, posted, lapses, since>>
    BY <1>2, <1>5 DEF Fire
  <2>2. CronTypes'
    BY <1>1, <1>4, <2>1 DEF CronTypes, Keys
  <2>3. \A d \in ToSet(Events) : d \in ToSet(cron.todo) \/ (cron.minute \in Due[d] => <<d, cron.minute>> \in fired) =>
          d \in ToSet(cron'.todo) \/ (cron.minute \in Due[d] => <<d, cron.minute>> \in fired)
    BY <1>4, <1>5 DEF Seen, Matches
  <2>4. PassHolds'
    BY <1>1, <1>4, <2>1, <2>3 DEF PassHolds, Counts, Shown, Minute
  <2> QED BY <1>4, <2>2, <2>4 DEF CronInv
<1>6. CASE ~Seen(e) /\ Matches(e)
  <2>1. PICK took \in {0, Slow} :
          /\ Fits(now + took) /\ now' = now + took
          /\ lapses' = IF took > 0 THEN lapses \cup Until(now + took + Poll + 1) ELSE lapses
          /\ fired' = fired \cup {k} /\ posted' = [posted EXCEPT ![k] = @ + 1]
    BY <1>2, <1>3, <1>6 DEF Fire
  <2>2. k \in Keys /\ k \notin fired /\ since' = since /\ took \in Nat
    <3>1. cron.minute \in 0..Minutes
      BY <1>1 DEF CronTypes
    <3>2. k \in Keys
      BY <1>3, <1>4, <3>1 DEF Keys
    <3>3. since' = since
      BY DEF Fire
    <3>4. took \in Nat
      BY <2>1 DEF DriversAssumption
    <3> QED BY <1>3, <1>6, <3>2, <3>3, <3>4 DEF Seen
  <2>3. now' \in Nat /\ now' < 4 * Minutes /\ since' <= now' /\ now <= now'
    BY <1>1, <2>1, <2>2 DEF Fits, CronTypes
  <2>4. posted' = [j \in Keys |-> IF j \in fired' THEN 1 ELSE 0]
    BY <1>1, <2>1, <2>2 DEF CronTypes
  <2>5. CronTypes'
    BY <1>1, <1>4, <2>1, <2>2, <2>3, <2>4 DEF CronTypes, Keys
  <2>6. \A d \in ToSet(Events) : d \in ToSet(cron.todo) \/ (cron.minute \in Due[d] => <<d, cron.minute>> \in fired) =>
          d \in ToSet(cron'.todo) \/ (cron.minute \in Due[d] => <<d, cron.minute>> \in fired')
    BY <1>3, <1>4, <2>1
  <2>7. lapses \subseteq lapses' /\ fired \subseteq fired'
    BY <2>1
  <2>8. \A m : Counts(m)' => Counts(m)
    BY <2>2, <2>7 DEF Counts, Minute
  <2>9. cron.minute <= Minute(now') /\ (cron.minute = Minute(now') \/ cron.minute..Minute(now' + Poll + 1) \subseteq lapses')
    <3>1. /\ Minute(now) \in Nat /\ Minute(now') \in Nat /\ Minute(now) <= Minute(now')
          /\ cron.minute \in Nat /\ cron.minute <= Minute(now) /\ now \in Nat
      BY <1>1, <2>3, MinutesGrow DEF CronTypes, PassHolds
    <3>2. CASE took = 0
      <4>1. now' = now /\ lapses' = lapses
        BY <1>1, <2>1, <3>2 DEF CronTypes
      <4> QED BY <1>1, <3>1, <4>1 DEF PassHolds
    <3>3. CASE took # 0
      <4>1. lapses' = lapses \cup (Minute(now)..Minute(now' + Poll + 1))
        BY <2>1, <2>2, <3>3 DEF Until
      <4>2. /\ Minute(now + Poll + 1) \in Nat /\ Minute(now) <= Minute(now + Poll + 1)
            /\ Minute(now + Poll + 1) <= Minute(now' + Poll + 1) /\ Minute(now' + Poll + 1) \in Nat
        <5>1. now + Poll + 1 \in Nat /\ now' + Poll + 1 \in Nat /\ now <= now + Poll + 1 /\ now + Poll + 1 <= now' + Poll + 1
          <6>1. Poll \in Nat
            BY <1>1
          <6>2. now \in Nat /\ now' \in Nat /\ now <= now'
            BY <2>3, <3>1
          <6> QED BY <6>1, <6>2, LaterBy
        <5> QED BY <3>1, <5>1, MinutesGrow
      <4>3. cron.minute..Minute(now' + Poll + 1) \subseteq lapses'
        <5>1. CASE cron.minute = Minute(now)
          BY <4>1, <5>1
        <5>2. CASE cron.minute..Minute(now + Poll + 1) \subseteq lapses
          <6> SUFFICES ASSUME NEW m \in cron.minute..Minute(now' + Poll + 1) PROVE m \in lapses'
            OBVIOUS
          <6>1. CASE m <= Minute(now + Poll + 1)
            BY <3>1, <4>1, <4>2, <5>2, <6>1
          <6>2. CASE m > Minute(now + Poll + 1)
            BY <3>1, <4>1, <4>2, <6>2
          <6> QED BY <3>1, <4>2, <6>1, <6>2
        <5> QED BY <1>1, <5>1, <5>2 DEF PassHolds
      <4> QED BY <3>1, <4>3
    <3> QED BY <3>2, <3>3
  <2>10. PassHolds'
    <3>1. \A m : Counts(m)' /\ m < cron.minute => Shown(m)'
      BY <1>1, <2>7, <2>8 DEF PassHolds, Shown
    <3>2. cron.minute \in lapses' \/ \A d \in ToSet(Events) :
            d \in ToSet(cron'.todo) \/ (cron.minute \in Due[d] => <<d, cron.minute>> \in fired')
      BY <1>1, <2>6, <2>7 DEF PassHolds
    <3> QED BY <1>4, <2>9, <3>1, <3>2 DEF PassHolds, Minute
  <2> QED BY <1>4, <2>5, <2>10 DEF CronInv
<1> QED BY <1>5, <1>6

LEMMA SleepHolds ==
  ASSUME DriversAssumption, CronInv, Sleep
  PROVE  CronInv'
<1>1. CronTypes /\ PassHolds /\ Minute(now) \in 0..Minutes /\ Poll \in 1..3 /\ Minutes \in Nat
  BY MinuteKnown DEF CronInv, Sleep
<1>2. PICK drift \in {0, 1} : Fits(now + Poll + drift) /\ now' = now + Poll + drift
  BY DEF Sleep
<1>3. /\ cron'.pc = "poll" /\ cron' \in [pc : {"poll", "pass"}, minute : 0..Minutes, todo : Seq(ToSet(Events))]
      /\ UNCHANGED <<fired, posted, lapses, since>> /\ cron.todo = <<>> /\ cron.minute \in 0..Minutes
  BY <1>1 DEF Sleep, CronTypes
<1>4. now \in Nat /\ now' \in Nat /\ now' < 4 * Minutes /\ now <= now' /\ now' <= now + 4 /\ now' <= now + Poll + 1
  BY <1>1, <1>2 DEF Fits, CronTypes
<1>5. CronTypes'
  <2>1. since \in Nat /\ since <= now
    BY <1>1 DEF CronTypes
  <2>2. since' \in Nat /\ since' <= now'
    BY <1>3, <1>4, <2>1
  <2> QED BY <1>1, <1>3, <1>4, <2>2 DEF CronTypes, Keys
<1>6. /\ Minute(now) \in Nat /\ Minute(now') \in Nat /\ Minute(now) <= Minute(now') /\ Minute(now') <= Minute(now) + 1
      /\ Minute(now') <= Minute(now + Poll + 1) /\ Minute(now + Poll + 1) \in Nat
  <2>1. now + Poll + 1 \in Nat
    BY <1>1, <1>4
  <2> QED BY <1>4, <2>1, MinutesGrow, NextMinute
<1>7. ToSet(cron.todo) = {}
  BY <1>3 DEF ToSet
<1>8. ASSUME NEW m, Counts(m), m < Minute(now') PROVE Shown(m)
  <2>1. m \in Nat /\ m \notin lapses
    BY <1>8 DEF Counts
  <2>2. CASE m < cron.minute
    BY <1>1, <1>8, <2>2 DEF PassHolds
  <2>3. CASE m = cron.minute
    BY <1>1, <1>7, <2>1, <2>3 DEF PassHolds, Shown
  <2>4. CASE m > cron.minute
    <3>1. CASE cron.minute = Minute(now)
      BY <1>3, <1>6, <1>8, <2>1, <2>4, <3>1
    <3>2. ~(cron.minute..Minute(now + Poll + 1) \subseteq lapses)
      <4>1. m <= Minute(now + Poll + 1) /\ cron.minute \in Nat
        BY <1>3, <1>6, <1>8, <2>1, Minutes \in Nat, <1>1
      <4>2. m \in cron.minute..Minute(now + Poll + 1)
        BY <1>6, <2>1, <2>4, <4>1
      <4> QED BY <2>1, <4>2
    <3> QED BY <1>1, <3>1, <3>2 DEF PassHolds
  <2> QED BY <1>3, <2>1, <2>2, <2>3, <2>4
<1>9. PollHolds'
  BY <1>3, <1>8 DEF PollHolds, Counts, Shown, Minute
<1> QED BY <1>3, <1>5, <1>9 DEF CronInv

LEMMA RestartCronHolds ==
  ASSUME DriversAssumption, CronInv, RestartCron
  PROVE  CronInv'
<1>1. CronTypes /\ Minutes \in Nat /\ Slow \in Nat
  BY DEF CronInv, DriversAssumption
<1>2. PICK pause \in {0, Slow} : Fits(now + pause) /\ now' = now + pause /\ since' = now + pause
  BY DEF RestartCron
<1>3. cron' = [pc |-> "poll", minute |-> 0, todo |-> <<>>] /\ fired' = {} /\ posted' = [k \in Keys |-> 0]
  BY DEF RestartCron
<1>4. now' \in Nat /\ now' < 4 * Minutes /\ since' = now'
  BY <1>1, <1>2 DEF Fits, CronTypes
<1>5. CronTypes'
  BY <1>1, <1>3, <1>4 DEF CronTypes, Keys
<1>6. PollHolds'
  <2>1. Minute(now') \in Nat /\ Minute(since)' = Minute(now')
    BY <1>4, Quarters DEF Minute
  <2> QED BY <2>1 DEF PollHolds, Counts, Minute
<1> QED BY <1>3, <1>5, <1>6 DEF CronInv

LEMMA CronKeeps == DriversAssumption /\ CronInv => DuePosted
<1> SUFFICES ASSUME DriversAssumption, CronInv
             PROVE  /\ \A k \in Keys : posted[k] <= 1
                    /\ cron.pc = "poll" =>
                         \A e \in ToSet(Events), m \in 0..Minutes :
                           m < Minute(now) /\ m > Minute(since) /\ m \notin lapses /\ m \in Due[e] => posted[<<e, m>>] = 1
  BY DEF DuePosted
<1>1. \A k \in Keys : posted[k] = IF k \in fired THEN 1 ELSE 0
  BY DEF CronInv, CronTypes
<1>2. ASSUME cron.pc = "poll", NEW e \in ToSet(Events), NEW m \in 0..Minutes,
             m < Minute(now), m > Minute(since), m \notin lapses, m \in Due[e]
      PROVE  posted[<<e, m>>] = 1
  <2>1. <<e, m>> \in fired /\ <<e, m>> \in Keys
    BY <1>2 DEF CronInv, PollHolds, Counts, Shown, Keys
  <2> QED BY <1>1, <2>1
<1> QED BY <1>1, <1>2

---------------------------------------------------------------------------
(* The history of a turn. *)

Rows == [chat : Chats, role : {"user", "assistant"}, ts : Nat]

(* The rows from the one written last are not yet in the history of the     *)
(* turn that writes them.                                                  *)
ChosenFrom(h, n) ==
  /\ \A k \in DOMAIN h : h[k] \in 1..n /\ h[k] \in DOMAIN rows /\ rows[h[k]].chat = bot.chat
  /\ \A k, l \in DOMAIN h : k < l => rows[h[k]].ts <= rows[h[l]].ts
  /\ \A i \in 1..n, k \in DOMAIN h :
       rows[i].chat = bot.chat /\ rows[i].ts > rows[h[k]].ts => i \in Range(h)

BotInv ==
  /\ rows \in Seq(Rows) /\ second \in Nat
  /\ bot.pc \in {"idle", "answer", "reply"}
  /\ bot.pc # "idle" => bot.chat \in Chats
  /\ bot.pc = "answer" => ChosenFrom(bot.history, Len(rows))
  /\ bot.pc = "reply" => Len(rows) > 0 /\ ChosenFrom(bot.history, Len(rows) - 1)

LEMMA BotStarts == DriversInit => BotInv
BY DEF DriversInit, BotInv

LEMMA MessageHolds ==
  ASSUME BotInv, Message
  PROVE  BotInv'
<1>0. PICK chat \in Chats : \E s \in Selections(chat) : bot' = [pc |-> "answer", chat |-> chat, history |-> s]
  BY DEF Message
<1>1. PICK s \in Selections(chat) : bot' = [pc |-> "answer", chat |-> chat, history |-> s]
  BY <1>0
<1>2. rows' = rows /\ second' = second /\ rows \in Seq(Rows) /\ Len(rows) \in Nat /\ DOMAIN rows = 1..Len(rows)
  BY DEF Message, BotInv
<1>3. /\ \A k \in DOMAIN s : s[k] \in Of(chat)
      /\ \A k \in DOMAIN s : \A i \in Of(chat) :
          /\ i \notin Range(s) => ~Newer(i, s[k])
          /\ \A l \in DOMAIN s : k < l => ~Newer(s[k], s[l])
  BY <1>1 DEF Selections
<1>4. \A i \in Of(chat) : i \in DOMAIN rows /\ rows[i].chat = chat /\ rows[i].ts \in Nat
  <2>1. \A i \in DOMAIN rows : rows[i] \in Rows
    BY <1>2
  <2> QED BY <2>1 DEF Of, Rows
<1>5. ChosenFrom(s, Len(rows))'
  <2>1. \A k \in DOMAIN s : s[k] \in 1..Len(rows) /\ rows[s[k]].chat = chat
    BY <1>2, <1>3, <1>4
  <2>2. ASSUME NEW k \in DOMAIN s, NEW l \in DOMAIN s, k < l PROVE rows[s[k]].ts <= rows[s[l]].ts
    <3>1. ~(rows[s[k]].ts > rows[s[l]].ts)
      BY <1>3, <2>2 DEF Newer
    <3>2. rows[s[k]].ts \in Nat /\ rows[s[l]].ts \in Nat
      BY <1>3, <1>4
    <3> QED BY <3>1, <3>2
  <2>3. ASSUME NEW i \in 1..Len(rows), NEW k \in DOMAIN s, rows[i].chat = chat, rows[i].ts > rows[s[k]].ts
        PROVE  i \in Range(s)
    <3>1. i \in Of(chat)
      BY <1>2, <2>3 DEF Of
    <3> QED BY <1>3, <2>3, <3>1 DEF Newer
  <2> QED BY <1>1, <1>2, <2>1, <2>2, <2>3 DEF ChosenFrom
<1> QED BY <1>1, <1>2, <1>5 DEF BotInv

LEMMA RememberHolds ==
  ASSUME BotInv, Remember
  PROVE  BotInv'
<1>1. /\ rows \in Seq(Rows) /\ Len(rows) \in Nat /\ DOMAIN rows = 1..Len(rows) /\ second \in Nat /\ second' = second
      /\ bot.chat \in Chats
  BY DEF Remember, BotInv
<1>2. CASE bot.pc = "answer"
  <2>1. rows' = Append(rows, Row("user")) /\ bot' = [pc |-> "reply", chat |-> bot.chat, history |-> bot.history]
    BY <1>2 DEF Remember
  <2>2. Row("user") \in Rows
    BY <1>1 DEF Row, Rows
  <2>3. /\ rows' \in Seq(Rows) /\ Len(rows') = Len(rows) + 1 /\ \A i \in 1..Len(rows) : rows'[i] = rows[i]
    BY <1>1, <2>1, <2>2, AppendProperties
  <2>4. ChosenFrom(bot.history, Len(rows))
    BY <1>2 DEF BotInv
  <2>5. PICK h : h = bot.history
    OBVIOUS
  <2>6. PICK n : n = Len(rows)
    OBVIOUS
  <2>7. ChosenFrom(h, n)'
    <3>1. \A i \in 1..n : rows'[i] = rows[i] /\ i \in DOMAIN rows'
      BY <1>1, <2>3, <2>6
    <3>2. ChosenFrom(h, n) /\ bot'.chat = bot.chat
      BY <2>1, <2>4, <2>5, <2>6
    <3> QED BY <3>1, <3>2 DEF ChosenFrom
  <2>8. bot'.pc = "reply" /\ bot'.history = h /\ bot'.chat \in Chats /\ Len(rows') > 0 /\ Len(rows') - 1 = n
    BY <1>1, <2>1, <2>3, <2>5, <2>6
  <2> QED BY <1>1, <2>3, <2>7, <2>8 DEF BotInv
<1>3. CASE bot.pc = "reply"
  <2>1. rows' = Append(rows, Row("assistant")) /\ bot' = [pc |-> "idle"]
    BY <1>3 DEF Remember
  <2>2. Row("assistant") \in Rows
    BY <1>1 DEF Row, Rows
  <2> QED BY <1>1, <2>1, <2>2, AppendProperties DEF BotInv
<1> QED BY <1>2, <1>3 DEF Remember

LEMMA BotStep == BotInv /\ BotNext => BotInv'
<1> SUFFICES ASSUME BotInv, BotNext PROVE BotInv'
  OBVIOUS
<1>1. CASE Message
  BY <1>1, MessageHolds
<1>2. CASE Remember
  BY <1>2, RememberHolds
<1>3. CASE Abandon
  BY <1>3 DEF Abandon, BotInv
<1>4. CASE NextSecond
  BY <1>4 DEF NextSecond, BotInv, ChosenFrom
<1> QED BY <1>1, <1>2, <1>3, <1>4 DEF BotNext

LEMMA BotKeeps == BotInv => HistoryOfChat
<1> SUFFICES ASSUME BotInv, bot.pc # "idle", NEW h, h = bot.history
             PROVE  /\ \A k, l \in DOMAIN h : k < l => rows[h[k]].ts <= rows[h[l]].ts
                    /\ \A i \in DOMAIN rows, k \in DOMAIN h :
                         /\ rows[h[k]].chat = bot.chat
                         /\ rows[i].chat = bot.chat /\ rows[i].ts > rows[h[k]].ts /\ Len(h) > 0 =>
                              i \in Range(h) \/ (bot.pc = "reply" /\ i = Len(rows))
  BY DEF HistoryOfChat
<1>1. Len(rows) \in Nat /\ DOMAIN rows = 1..Len(rows)
  BY DEF BotInv
<1>2. CASE bot.pc = "answer"
  BY <1>1, <1>2 DEF BotInv, ChosenFrom
<1>3. CASE bot.pc = "reply"
  <2>1. ChosenFrom(h, Len(rows) - 1)
    BY <1>3 DEF BotInv
  <2>2. \A i \in DOMAIN rows : i \in 1..(Len(rows) - 1) \/ i = Len(rows)
    BY <1>1
  <2> QED BY <1>3, <2>1, <2>2 DEF ChosenFrom
<1> QED BY <1>2, <1>3 DEF BotInv

(* However slow, unreadable or restarted the cron driver is, it posts no    *)
(* event twice for a minute and leaves out none that was due in a minute    *)
(* that nothing disturbed; and whatever rows share a second, a turn of the  *)
(* bot has the newest rows of its own chat as its history, in order.       *)
THEOREM DriversHold == DriversSpec => []DriversKeepWord
<1>1. DriversInit => CronInv /\ BotInv
  BY DriversAssumption, CronStarts, BotStarts
<1>2. CronInv /\ BotInv /\ [DriversNext]_<<cronVars, botVars>> => CronInv' /\ BotInv'
  <2> SUFFICES ASSUME CronInv, BotInv, [DriversNext]_<<cronVars, botVars>> PROVE CronInv' /\ BotInv'
    OBVIOUS
  <2>1. ASSUME UNCHANGED cronVars PROVE CronInv'
    <3>1. UNCHANGED <<now, cron, fired, posted, lapses, since>>
      BY <2>1 DEF cronVars
    <3> QED BY <3>1 DEF CronInv, CronTypes, PassHolds, PollHolds, Counts, Shown, Minute, Keys
  <2>2. ASSUME UNCHANGED botVars PROVE BotInv'
    BY <2>2 DEF botVars, BotInv, ChosenFrom
  <2>3. ASSUME CronNext PROVE CronInv'
    BY <2>3, DriversAssumption, WakeHolds, FireHolds, SleepHolds, RestartCronHolds DEF CronNext
  <2> QED BY <2>1, <2>2, <2>3, BotStep DEF DriversNext, botVars, cronVars
<1>3. CronInv /\ BotInv => DriversKeepWord
  BY DriversAssumption, CronKeeps, BotKeeps DEF DriversKeepWord
<1> QED BY <1>1, <1>2, <1>3, PTL DEF DriversSpec

---------------------------------------------------------------------------
(* Harness evolution: the working tree of an evolved copy.                 *)

Tryable == Definitions \cup {Ours, Teacher}
Content ==
  {NoFile, Mine, Bundle} \cup {Loaded(d) : d \in Tryable} \cup Tryable
    \cup UNION {UNION {Contents(h[i]) : i \in DOMAIN h} : h \in Histories}
Trees       == [RepoPaths -> Content]
Commits     == Seq(Trees) \ {<<>>}
LongCommits == {c \in Commits : Len(c) > 1}

CloneFields == {"stage", "working", "connected", "profile", "tip", "at", "detached", "tree", "staged"}
IsClone(g) ==
  /\ DOMAIN g = CloneFields /\ g.tip \in Commits /\ g.at \in Commits /\ g.detached \in BOOLEAN /\ g.tree \in Trees
  /\ g.staged \cap Excluded = {}

(* Outside the harness the tree is the commit's, but for untracked nested files. *)
CleanTree(g) ==
  \A p \in RepoPaths \ Excluded : g.tree[p] = Tree(g.at)[p] \/ (p \in Nested /\ Tree(g.at)[p] = NoFile)

(* No commit of the history holds a file of the harness, or what a compile writes. *)
Bare(c)  == \A i \in DOMAIN c, p \in Excluded \cap RepoPaths : c[i][p] = NoFile
Owned(c) == \A i \in DOMAIN c, p \in Compiled : c[i][p] = NoFile

Harnessed(g, d) == \A p \in Compiled : g.tree[p] = Loaded(d)

LEMMA HistoryCommits ==
  ASSUME NEW h \in Histories PROVE h \in Commits
<1>1. h # <<>> /\ h \in Seq([RepoPaths -> UNION {Contents(h[i]) : i \in DOMAIN h}])
  BY RepositoryAssumption DEF RepositoryAssumption
<1>2. UNION {Contents(h[i]) : i \in DOMAIN h} \subseteq Content
  BY DEF Content
<1>3. [RepoPaths -> UNION {Contents(h[i]) : i \in DOMAIN h}] \subseteq Trees
  <2> DEFINE C == UNION {Contents(h[i]) : i \in DOMAIN h}
  <2>1. C \subseteq Content
    BY <1>2
  <2> HIDE DEF C
  <2>2. [RepoPaths -> C] \subseteq [RepoPaths -> Content]
    BY <2>1
  <2> QED BY <2>2 DEF C, Trees
<1> QED BY <1>1, <1>3, SeqMonotonic DEF Commits

LEMMA CommitHasTree ==
  ASSUME NEW c \in Commits PROVE Len(c) \in Nat \ {0} /\ Len(c) \in DOMAIN c /\ DOMAIN c = 1..Len(c) /\ Tree(c) \in Trees
<1>1. c \in Seq(Trees) /\ c # <<>>
  BY DEF Commits
<1>2. Len(c) \in Nat \ {0} /\ DOMAIN c = 1..Len(c)
  BY <1>1, EmptySeq, LenProperties
<1>3. Len(c) \in 1..Len(c)
  BY <1>2
<1> QED BY <1>1, <1>2, <1>3, ElementOfSeq DEF Tree

(* The parent of a commit.                                                 *)
LEMMA FrontCommits ==
  ASSUME NEW c \in LongCommits
  PROVE  Front(c) \in Commits /\ (Bare(c) => Bare(Front(c))) /\ (Owned(c) => Owned(Front(c)))
<1>1. c \in Seq(Trees) /\ Len(c) \in Nat /\ Len(c) > 1 /\ DOMAIN c = 1..Len(c) /\ \A i \in 1..(Len(c) - 1) : c[i] \in Trees
  <2>1. c \in Seq(Trees) /\ Len(c) > 1
    BY DEF LongCommits, Commits
  <2>2. Len(c) \in Nat /\ DOMAIN c = 1..Len(c) /\ c \in [1..Len(c) -> Trees]
    BY <2>1, LenProperties
  <2> QED BY <2>1, <2>2
<1>2. /\ Front(c) \in Seq(Trees) /\ Len(Front(c)) = Len(c) - 1
      /\ \A i \in 1..(Len(c) - 1) : Front(c)[i] = c[i]
  <2>1. Len(c) - 1 \in Int /\ 1 <= Len(c) - 1
    BY <1>1
  <2>2. /\ SubSeq(c, 1, Len(c) - 1) \in Seq(Trees) /\ Len(SubSeq(c, 1, Len(c) - 1)) = (Len(c) - 1) - 1 + 1
        /\ \A i \in 1..((Len(c) - 1) - 1 + 1) : SubSeq(c, 1, Len(c) - 1)[i] = c[1 + i - 1]
    BY <1>1, <2>1, SubSeqProperties
  <2> QED BY <1>1, <2>2 DEF Front
<1>3. DOMAIN Front(c) = 1..(Len(c) - 1) /\ Front(c) # <<>>
  BY <1>1, <1>2, LenProperties, EmptySeq
<1>4. \A i \in DOMAIN Front(c) : i \in DOMAIN c /\ Front(c)[i] = c[i]
  BY <1>1, <1>2, <1>3
<1> QED BY <1>2, <1>3, <1>4 DEF Commits, Bare, Owned

LEMMA SelectedCommits ==
  ASSUME NEW c \in Commits, NEW x \in Selected(c)
  PROVE  x \in LongCommits /\ (Owned(c) => Owned(x))
<1>1. PICK n \in 2..Len(c) : x = SubSeq(c, 1, n)
  BY DEF Selected, Small
<1>2. c \in Seq(Trees) /\ Len(c) \in Nat /\ DOMAIN c = 1..Len(c) /\ \A i \in 1..n : c[i] \in Trees
  <2>1. c \in Seq(Trees)
    BY DEF Commits
  <2>2. Len(c) \in Nat /\ DOMAIN c = 1..Len(c) /\ c \in [1..Len(c) -> Trees]
    BY <2>1, LenProperties
  <2> QED BY <1>1, <2>1, <2>2
<1>3. n \in Int /\ n \in Nat /\ 1 <= n /\ n > 1
  BY <1>1, <1>2
<1>4. /\ x \in Seq(Trees) /\ Len(x) = n - 1 + 1 /\ \A i \in 1..(n - 1 + 1) : x[i] = c[1 + i - 1]
  BY <1>1, <1>2, <1>3, SubSeqProperties
<1>5. x \in Seq(Trees) /\ Len(x) = n /\ \A i \in 1..n : i \in DOMAIN c /\ x[i] = c[i]
  BY <1>1, <1>2, <1>3, <1>4
<1>6. DOMAIN x = 1..n /\ x # <<>>
  BY <1>3, <1>5, LenProperties, EmptySeq
<1> QED BY <1>3, <1>5, <1>6 DEF LongCommits, Commits, Owned

LEMMA AppendCommits ==
  ASSUME NEW c \in Commits, NEW t \in Trees
  PROVE  /\ Append(c, t) \in Commits /\ Tree(Append(c, t)) = t
         /\ Owned(Append(c, t)) <=> Owned(c) /\ \A p \in Compiled : t[p] = NoFile
<1>1. c \in Seq(Trees) /\ Len(c) \in Nat /\ DOMAIN c = 1..Len(c)
  BY CommitHasTree DEF Commits
<1>2. /\ Append(c, t) \in Seq(Trees) /\ Append(c, t) # <<>> /\ Len(Append(c, t)) = Len(c) + 1
      /\ \A i \in 1..Len(c) : Append(c, t)[i] = c[i]
      /\ Append(c, t)[Len(c) + 1] = t
  BY <1>1, AppendProperties
<1>3. DOMAIN Append(c, t) = 1..(Len(c) + 1)
  BY <1>2, LenProperties
<1>4. \A i \in 1..(Len(c) + 1) : i \in 1..Len(c) \/ i = Len(c) + 1
  BY <1>1
<1>5. \A i \in 1..Len(c) : i \in 1..(Len(c) + 1)
  BY <1>1
<1>6. Len(c) + 1 \in 1..(Len(c) + 1)
  BY <1>1
<1> DEFINE a == Append(c, t)
<1>7. Owned(a) <=> Owned(c) /\ \A p \in Compiled : t[p] = NoFile
  <2>1. ASSUME Owned(a) PROVE Owned(c) /\ \A p \in Compiled : t[p] = NoFile
    BY <1>1, <1>2, <1>3, <1>5, <1>6, <2>1 DEF Owned
  <2>2. ASSUME Owned(c), \A p \in Compiled : t[p] = NoFile PROVE Owned(a)
    BY <1>1, <1>2, <1>3, <1>4, <2>2 DEF Owned
  <2> QED BY <2>1, <2>2
<1> QED BY <1>2, <1>7 DEF Commits, Tree

---------------------------------------------------------------------------
(* Checkouts.                                                              *)

LEMMA CheckoutIs ==
  ASSUME NEW g, IsClone(g), NEW c \in Commits, NEW d \in BOOLEAN, NEW r, r = Checkout(g, c, d)
  PROVE  /\ IsClone(r) /\ r.tip = g.tip /\ r.connected = g.connected /\ r.stage = g.stage /\ r.working = g.working
         /\ \/ /\ r.at = g.at /\ r.detached = g.detached /\ r.tree = g.tree
               /\ \E p \in RepoPaths : g.tree[p] # Tree(g.at)[p] /\ Tree(c)[p] # Tree(g.at)[p]
            \/ /\ r.at = c /\ r.detached = d
               /\ \A p \in RepoPaths : g.tree[p] # Tree(g.at)[p] => Tree(c)[p] = Tree(g.at)[p]
               /\ \A p \in RepoPaths : r.tree[p] = IF g.tree[p] # Tree(g.at)[p] THEN g.tree[p] ELSE Tree(c)[p]
<1>1. Tree(c) \in Trees /\ Tree(g.at) \in Trees /\ g.tree \in Trees
  BY CommitHasTree DEF IsClone
<1> DEFINE edited == {p \in RepoPaths : g.tree[p] # Tree(g.at)[p]}
           t == [p \in RepoPaths |-> IF p \in edited THEN g.tree[p] ELSE Tree(c)[p]]
<1>2. t \in Trees
  BY <1>1 DEF Trees
<1>3. CASE \E p \in edited : Tree(c)[p] # Tree(g.at)[p]
  <2>1. r = g
    BY <1>3 DEF Checkout
  <2> QED BY <1>3, <2>1
<1>4. CASE ~\E p \in edited : Tree(c)[p] # Tree(g.at)[p]
  <2>1. r = [g EXCEPT !.at = c, !.detached = d, !.tree = t]
    BY <1>4 DEF Checkout
  <2>2. /\ DOMAIN r = CloneFields /\ r.at = c /\ r.detached = d /\ r.tree = t /\ r.tip = g.tip /\ r.staged = g.staged
        /\ r.connected = g.connected /\ r.stage = g.stage /\ r.working = g.working
    BY <2>1 DEF IsClone, CloneFields
  <2>3. IsClone(r)
    BY <1>2, <2>2 DEF IsClone
  <2> QED BY <1>4, <2>2, <2>3
<1> QED BY <1>3, <1>4

(* What neither commit has, what was clean and what was litter stays so.   *)
LEMMA CheckoutKeeps ==
  ASSUME NEW g, IsClone(g), NEW c \in Commits, NEW d \in BOOLEAN, NEW r, r = Checkout(g, c, d)
  PROVE  /\ \A p \in RepoPaths : Tree(g.at)[p] = NoFile /\ Tree(c)[p] = NoFile => r.tree[p] = g.tree[p]
         /\ CleanTree(g) => CleanTree(r)
         /\ Litter(r) = Litter(g) /\ \A p \in Litter(g) : r.tree[p] = g.tree[p]
<1>1. \/ r.at = g.at /\ r.detached = g.detached /\ r.tree = g.tree
      \/ /\ r.at = c /\ r.detached = d
         /\ \A p \in RepoPaths : g.tree[p] # Tree(g.at)[p] => Tree(c)[p] = Tree(g.at)[p]
         /\ \A p \in RepoPaths : r.tree[p] = IF g.tree[p] # Tree(g.at)[p] THEN g.tree[p] ELSE Tree(c)[p]
  BY CheckoutIs
<1>2. \A p \in RepoPaths : (r.tree[p] # Tree(r.at)[p]) <=> (g.tree[p] # Tree(g.at)[p])
  BY <1>1
<1>3. Litter(r) = Litter(g) /\ \A p \in Litter(g) : r.tree[p] = g.tree[p]
  BY <1>1, <1>2 DEF Litter
<1>4. CleanTree(g) => CleanTree(r)
  BY <1>1 DEF CleanTree
<1> QED BY <1>1, <1>3, <1>4

LEMMA BareTrees ==
  ASSUME NEW c \in Commits PROVE /\ Bare(c) => \A p \in Excluded \cap RepoPaths : Tree(c)[p] = NoFile
                                 /\ Owned(c) => \A p \in Compiled : Tree(c)[p] = NoFile
                                 /\ Bare(c) => Owned(c)
BY CommitHasTree, EvolveAssumption, RepositoryAssumption DEF Bare, Owned, Tree, EvolveAssumption, RepositoryAssumption

(* A clean tree between commits without a harness moves, unless the other  *)
(* one tracks a file that litters it.                                      *)
LEMMA CheckoutMoves ==
  ASSUME NEW g, IsClone(g), NEW c \in Commits, NEW d \in BOOLEAN, NEW r, r = Checkout(g, c, d),
         CleanTree(g), Bare(g.at), Bare(c), \A p \in Litter(g) : Tree(c)[p] = NoFile
  PROVE  /\ r.at = c /\ r.detached = d
         /\ \A p \in RepoPaths : r.tree[p] = IF p \in Excluded \cup Litter(g) THEN g.tree[p] ELSE Tree(c)[p]
<1>1. \A p \in RepoPaths \cap Excluded : Tree(g.at)[p] = NoFile /\ Tree(c)[p] = NoFile
  BY BareTrees DEF IsClone
<1>2. \A p \in RepoPaths : g.tree[p] # Tree(g.at)[p] => p \in Excluded \cup Litter(g) /\ Tree(c)[p] = Tree(g.at)[p]
  BY <1>1 DEF CleanTree, Litter
<1>3. /\ r.at = c /\ r.detached = d
      /\ \A p \in RepoPaths : r.tree[p] = IF g.tree[p] # Tree(g.at)[p] THEN g.tree[p] ELSE Tree(c)[p]
  BY <1>2, CheckoutIs
<1>4. \A p \in Litter(g) : g.tree[p] # Tree(g.at)[p]
  BY DEF Litter
<1> QED BY <1>1, <1>2, <1>3, <1>4

(* `git reset --hard` and `git clean` together.                            *)
Cleared(g) == [g EXCEPT !.tree = AfterClean(g, Reset(g)), !.staged = {}]

LEMMA ResetCleans ==
  ASSUME NEW g, IsClone(g), NEW s, s = Cleared(g)
  PROVE  /\ IsClone(s) /\ s.tip = g.tip /\ s.at = g.at /\ s.detached = g.detached /\ s.connected = g.connected
         /\ s.stage = g.stage /\ s.working = g.working
         /\ CleanTree(s)
         /\ \A p \in RepoPaths \cap Excluded : Tree(g.at)[p] = NoFile => s.tree[p] = g.tree[p]
         /\ \A p \in Litter(s) : s.tree[p] = g.tree[p] /\ p \in Litter(g) \ g.staged
<1>1. Tree(g.at) \in Trees /\ g.tree \in Trees /\ NoFile \in Content
  BY CommitHasTree DEF IsClone, Content
<1>2. Reset(g) \in Trees
  BY <1>1 DEF Reset, Trees
<1>3. AfterClean(g, Reset(g)) \in Trees
  BY <1>1, <1>2 DEF AfterClean, Trees
<1>4. /\ DOMAIN s = CloneFields /\ s.tip = g.tip /\ s.at = g.at /\ s.detached = g.detached /\ s.connected = g.connected
      /\ s.stage = g.stage /\ s.working = g.working /\ s.tree = AfterClean(g, Reset(g)) /\ s.staged = {}
  BY DEF IsClone, CloneFields, Cleared
<1>5. \A p \in RepoPaths : s.tree[p] = IF p \notin Excluded \cup Nested /\ Tree(g.at)[p] = NoFile THEN NoFile
                                     ELSE IF Tree(g.at)[p] = NoFile /\ p \notin g.staged THEN g.tree[p] ELSE Tree(g.at)[p]
  BY <1>4 DEF AfterClean, Reset
<1>6. CleanTree(s)
  BY <1>4, <1>5 DEF CleanTree
<1>7. \A p \in RepoPaths \cap Excluded : Tree(g.at)[p] = NoFile => s.tree[p] = g.tree[p]
  BY <1>5 DEF IsClone
<1>8. \A p \in Litter(s) : s.tree[p] = g.tree[p] /\ p \in Litter(g) \ g.staged
  BY <1>4, <1>5 DEF Litter
<1> QED BY <1>3, <1>4, <1>6, <1>7, <1>8 DEF IsClone

(* The tree is put back: to HEAD's files, then to where it was found.      *)
LEMMA PutBackIs ==
  ASSUME NEW g, IsClone(g), NEW found, IsClone(found), NEW r, r = PutBack(g, found),
         NEW to, to = IF found.detached THEN found.at ELSE g.tip
  PROVE  /\ IsClone(r) /\ r.tip = g.tip /\ r.connected = g.connected /\ r.stage = g.stage /\ r.working = g.working
         /\ CleanTree(r)
         /\ (r.at = g.at /\ r.detached = g.detached) \/ (r.at = to /\ r.detached = found.detached)
         /\ \A p \in RepoPaths \cap Excluded : Tree(g.at)[p] = NoFile /\ Tree(to)[p] = NoFile => r.tree[p] = g.tree[p]
         /\ \A p \in Litter(r) : r.tree[p] = g.tree[p] /\ p \in Litter(g) \ g.staged
         /\ Bare(g.at) /\ Bare(to) /\ (\A p \in Litter(r) : Tree(to)[p] = NoFile) =>
              /\ r.at = to /\ r.detached = found.detached
              /\ \A p \in RepoPaths : r.tree[p] = IF p \in Excluded \cup Litter(r) THEN g.tree[p] ELSE Tree(to)[p]
<1>1. PICK s : s = Cleared(g)
  OBVIOUS
<1>2. /\ IsClone(s) /\ s.tip = g.tip /\ s.at = g.at /\ s.detached = g.detached /\ s.connected = g.connected
      /\ s.stage = g.stage /\ s.working = g.working
      /\ CleanTree(s)
      /\ \A p \in RepoPaths \cap Excluded : Tree(g.at)[p] = NoFile => s.tree[p] = g.tree[p]
      /\ \A p \in Litter(s) : s.tree[p] = g.tree[p] /\ p \in Litter(g) \ g.staged
  BY <1>1, ResetCleans
<1>3. r = Checkout(s, to, found.detached) /\ to \in Commits /\ found.detached \in BOOLEAN
  BY <1>1 DEF PutBack, IsClone, Cleared
<1>4. /\ IsClone(r) /\ r.tip = s.tip /\ r.connected = s.connected /\ r.stage = s.stage /\ r.working = s.working
      /\ (r.at = s.at /\ r.detached = s.detached) \/ (r.at = to /\ r.detached = found.detached)
  BY <1>2, <1>3, CheckoutIs
<1>5. /\ \A p \in RepoPaths : Tree(s.at)[p] = NoFile /\ Tree(to)[p] = NoFile => r.tree[p] = s.tree[p]
      /\ CleanTree(r)
      /\ Litter(r) = Litter(s) /\ \A p \in Litter(s) : r.tree[p] = s.tree[p]
  BY <1>2, <1>3, CheckoutKeeps
<1>6. ASSUME Bare(g.at), Bare(to), \A p \in Litter(r) : Tree(to)[p] = NoFile
      PROVE  /\ r.at = to /\ r.detached = found.detached
             /\ \A p \in RepoPaths : r.tree[p] = IF p \in Excluded \cup Litter(r) THEN g.tree[p] ELSE Tree(to)[p]
  <2>1. /\ r.at = to /\ r.detached = found.detached
        /\ \A p \in RepoPaths : r.tree[p] = IF p \in Excluded \cup Litter(s) THEN s.tree[p] ELSE Tree(to)[p]
    BY <1>2, <1>3, <1>5, <1>6, CheckoutMoves
  <2>2. \A p \in RepoPaths \cap Excluded : s.tree[p] = g.tree[p]
    BY <1>2, <1>6, BareTrees DEF IsClone
  <2> QED BY <1>2, <1>5, <2>1, <2>2
<1>7. \A p \in Litter(r) : r.tree[p] = g.tree[p] /\ p \in Litter(g) \ g.staged
  BY <1>2, <1>5
<1> QED BY <1>2, <1>4, <1>5, <1>6, <1>7

LEMMA EditedIs ==
  ASSUME NEW g, IsClone(g), NEW edits, NEW r, r = Edited(g, edits)
  PROVE  /\ IsClone(r) /\ r.tip = g.tip /\ r.at = g.at /\ r.detached = g.detached /\ r.connected = g.connected
         /\ r.stage = g.stage /\ r.working = g.working
         /\ \A p \in RepoPaths : r.tree[p] = IF p \in edits THEN Mine ELSE g.tree[p]
<1> DEFINE t == [p \in RepoPaths |-> IF p \in edits THEN Mine ELSE g.tree[p]]
<1>1. t \in Trees
  BY DEF IsClone, Trees, Content
<1>2. r = [g EXCEPT !.tree = t]
  BY DEF Edited
<1>3. /\ DOMAIN r = CloneFields /\ r.tip = g.tip /\ r.at = g.at /\ r.detached = g.detached /\ r.connected = g.connected
      /\ r.stage = g.stage /\ r.working = g.working /\ r.tree = t /\ r.staged = g.staged
  BY <1>2 DEF IsClone, CloneFields
<1> QED BY <1>1, <1>3 DEF IsClone

LEMMA CommittedIs ==
  ASSUME NEW g, IsClone(g), NEW edits, NEW r, r = Committed(g, edits), ~g.detached => g.at = g.tip,
         edits \cap Compiled = {}, Owned(g.tip) => Owned(g.at)
  PROVE  /\ IsClone(r) /\ r.detached = g.detached /\ r.connected = g.connected /\ r.stage = g.stage /\ r.working = g.working
         /\ ~r.detached => r.at = r.tip
         /\ Owned(r.tip) => Owned(r.at) /\ Owned(g.tip)
         /\ \A p \in RepoPaths : r.tree[p] = IF p \in edits THEN Mine ELSE g.tree[p]
<1> DEFINE t == [p \in RepoPaths |-> IF p \in edits THEN Mine ELSE Tree(g.at)[p]]
           c == Append(g.at, t)
<1>1. t \in Trees
  BY CommitHasTree DEF IsClone, Trees, Content
<1>2. c \in Commits /\ (Owned(c) <=> Owned(g.at) /\ \A p \in Compiled : t[p] = NoFile)
  BY <1>1, AppendCommits DEF IsClone
<1>3. PICK e : e = Edited(g, edits)
  OBVIOUS
<1>4. /\ IsClone(e) /\ e.tip = g.tip /\ e.at = g.at /\ e.detached = g.detached /\ e.connected = g.connected
      /\ e.stage = g.stage /\ e.working = g.working
      /\ \A p \in RepoPaths : e.tree[p] = IF p \in edits THEN Mine ELSE g.tree[p]
  BY <1>3, EditedIs
<1>5. r = [e EXCEPT !.at = c, !.tip = IF g.detached THEN g.tip ELSE c]
  BY <1>3 DEF Committed
<1>6. /\ DOMAIN r = CloneFields /\ r.at = c /\ r.tip = (IF g.detached THEN g.tip ELSE c) /\ r.detached = e.detached
      /\ r.connected = e.connected /\ r.stage = e.stage /\ r.working = e.working /\ r.tree = e.tree /\ r.staged = e.staged
  BY <1>4, <1>5 DEF IsClone, CloneFields
<1>7. Owned(g.at) => Owned(c)
  <2>1. Owned(g.at) => \A p \in Compiled : Tree(g.at)[p] = NoFile
    BY BareTrees DEF IsClone
  <2>2. \A p \in Compiled : p \in RepoPaths /\ p \notin edits
    BY RepositoryAssumption DEF RepositoryAssumption
  <2> QED BY <1>2, <2>1, <2>2
<1>8. IsClone(r)
  BY <1>2, <1>4, <1>6 DEF IsClone
<1>9. Owned(r.tip) => Owned(r.at) /\ Owned(g.tip)
  BY <1>2, <1>6, <1>7
<1> QED BY <1>4, <1>6, <1>8, <1>9

LEMMA CompiledIs ==
  ASSUME NEW g, IsClone(g), NEW d \in Tryable, NEW r, r = CompiledInto(g, d)
  PROVE  /\ IsClone(r) /\ r.tip = g.tip /\ r.at = g.at /\ r.detached = g.detached /\ r.connected = g.connected
         /\ r.stage = g.stage /\ r.working = g.working
         /\ CleanTree(g) => CleanTree(r)
         /\ Harnessed(r, d)
<1> DEFINE t == [p \in RepoPaths |-> IF p \in Compiled THEN Loaded(d) ELSE g.tree[p]]
<1>1. t \in Trees
  BY DEF IsClone, Trees, Content
<1>2. r = [g EXCEPT !.tree = t]
  BY DEF CompiledInto
<1>3. /\ DOMAIN r = CloneFields /\ r.tip = g.tip /\ r.at = g.at /\ r.detached = g.detached /\ r.connected = g.connected
      /\ r.stage = g.stage /\ r.working = g.working /\ r.tree = t /\ r.staged = g.staged
  BY <1>2 DEF IsClone, CloneFields
<1> QED BY <1>1, <1>3, EvolveAssumption, RepositoryAssumption
        DEF IsClone, CleanTree, Harnessed, EvolveAssumption, RepositoryAssumption

---------------------------------------------------------------------------
(* The inductive invariant.                                                *)

ReplayerFields ==
  {"pc", "started", "script", "commits", "tried", "left", "commit", "next", "definition", "total", "best", "found",
   "edits", "changed", "score", "own", "fair", "failed", "committed", "ran", "answers", "gap"}

InTask == replayer.pc \in {"task", "diff", "restore"}

EvolveTypes ==
  /\ DOMAIN clone = CloneFields /\ DOMAIN replayer = ReplayerFields
  /\ clone.stage \in {"none", "cloned", "isolated", "profiled", "ready"}
  /\ clone.stage # "none" => IsClone(clone)
  /\ replayer.pc # "idle" => clone.stage = "ready" /\ ~clone.working
  /\ replayer.definition \in Tryable
  /\ replayer.best # <<>> => replayer.best[1].definition \in Tryable
  /\ replayer.commits \subseteq LongCommits /\ replayer.left \subseteq LongCommits /\ replayer.edits \subseteq Editable
  /\ replayer.pc = "idle" => replayer.commits = {} /\ replayer.left = {}
  /\ InTask => replayer.commit \in LongCommits /\ IsClone(replayer.found)

Isolated ==
  /\ clone.stage \in {"isolated", "profiled", "ready"} /\ clone.working => ~clone.connected
  /\ InTask => ~clone.connected
  /\ \A i \in DOMAIN archive : ~archive[i].connected

(* HEAD is the branch or detached from it; and what the branch never held  *)
(* of a compiled harness, no commit the scripts can be at holds.           *)
Rooted ==
  clone.stage # "none" =>
    /\ ~clone.detached => clone.at = clone.tip
    /\ InTask /\ ~replayer.found.detached => replayer.found.at = replayer.found.tip
    /\ Owned(clone.tip) =>
         /\ Owned(clone.at) /\ \A c \in replayer.commits \cup replayer.left : Owned(c)
         /\ InTask => Owned(replayer.found.at) /\ Owned(replayer.commit)

Tidy ==
  /\ clone.stage # "ready" => ~foreign
  /\ clone.stage # "none" /\ ~foreign /\ ~InTask => CleanTree(clone)

Compiles ==
  /\ (replayer.pc = "replay" \/ InTask) /\ Owned(clone.tip) => Harnessed(clone, replayer.definition)
  /\ replayer.pc = "teach" => Harnessed(clone, Teacher)

(* What a replay has done to the tree so far.                              *)
Underlies ==
  /\ InTask /\ replayer.own => Bare(replayer.found.at) /\ Bare(replayer.found.tip) /\ Bare(replayer.commit)
  /\ InTask /\ replayer.own /\ ~replayer.committed =>
       /\ clone.tip = replayer.found.tip /\ clone.at \in {replayer.found.at, Front(replayer.commit)}
       /\ \A p \in Excluded \cap RepoPaths :
            clone.tree[p] = IF p \in replayer.edits THEN Mine ELSE replayer.found.tree[p]
       /\ \A p \in Nested \cap RepoPaths :
            clone.tree[p] = IF p \in replayer.edits THEN Mine
                            ELSE IF p \in Litter(replayer.found) THEN replayer.found.tree[p] ELSE Tree(clone.at)[p]
  /\ replayer.pc = "restore" /\ ~replayer.failed => Litter(clone) \subseteq clone.staged

(* What a replay on a tree that only replays touched is graded for.        *)
ParentTracksNone == \A p \in Litter(replayer.found) : Tree(Front(replayer.commit))[p] = NoFile
LeftAt(p) == IF p \in replayer.edits THEN Mine ELSE replayer.found.tree[p]
Changes   == {p \in (replayer.edits \cup Litter(replayer.found)) \ Excluded : Tree(clone.at)[p] # LeftAt(p)}
Grades ==
  /\ InTask /\ replayer.fair => replayer.own
  /\ InTask /\ replayer.fair /\ ~replayer.committed =>
       /\ ParentTracksNone => clone.at = Front(replayer.commit)
       /\ \A p \in RepoPaths \ Excluded :
            clone.tree[p] = IF p \in replayer.edits \cup Litter(replayer.found) THEN LeftAt(p) ELSE Tree(clone.at)[p]
  /\ replayer.pc = "task" => replayer.edits = {} /\ ~replayer.committed
  /\ replayer.pc = "restore" /\ replayer.fair /\ ~replayer.failed /\ ~replayer.committed =>
       replayer.changed = Changes
  /\ ~InTask /\ replayer.pc # "replay" => ~replayer.ran

TeachersOnly(answers) ==
  \A t \in DOMAIN answers : ~answers[t].failed /\ \A p \in Compiled : answers[t].by[p] = Loaded(Teacher)
Answered ==
  /\ replayer.pc \in {"teach", "write"} => TeachersOnly(replayer.answers)
  /\ TeachersOnly(references.answers)

EvolveInv ==
  EvolveTypes /\ Isolated /\ Rooted /\ Tidy /\ Compiles /\ Underlies /\ Grades /\ CheckoutRestored /\ Answered

LEMMA ReplaysSound ==
  ASSUME EvolveInv PROVE ReplaysApart
<1>1. GradedForOwnEdits
  <2> SUFFICES ASSUME replayer.pc = "restore", replayer.fair, ~replayer.failed, ~replayer.committed
               PROVE  /\ ParentTracksNone => clone.at = Front(replayer.commit)
                      /\ replayer.changed = Changes
                      /\ \A p \in Compiled : clone.tree[p] = <<replayer.definition[1], replayer.definition[2]>>
    BY DEF GradedForOwnEdits, ParentTracksNone, Changes, LeftAt
  <2>1. /\ ParentTracksNone => clone.at = Front(replayer.commit)
        /\ InTask /\ replayer.own /\ replayer.changed = Changes
    BY DEF EvolveInv, Grades, InTask
  <2>2. Owned(clone.tip)
    <3>1. Bare(replayer.found.tip) /\ clone.tip = replayer.found.tip /\ replayer.found.tip \in Commits
      BY <2>1 DEF EvolveInv, Underlies, EvolveTypes, IsClone
    <3> QED BY <3>1, BareTrees
  <2> QED BY <2>1, <2>2 DEF EvolveInv, Compiles, Harnessed, Loaded
<1>2. ReferencesAreTeachers
  BY DEF EvolveInv, Answered, TeachersOnly, ReferencesAreTeachers, Loaded
<1>3. NoWayBack
  BY DEF EvolveInv, Isolated, NoWayBack, InTask
<1> QED BY <1>1, <1>2, <1>3 DEF EvolveInv, ReplaysApart

LEMMA EvolveStarts ==
  ASSUME EvolveInit PROVE EvolveInv
<1>1. /\ DOMAIN clone = CloneFields /\ clone.stage = "none" /\ ~clone.connected
      /\ DOMAIN replayer = ReplayerFields /\ replayer.pc = "idle" /\ replayer.definition = Ours /\ replayer.best = <<>>
      /\ replayer.commits = {} /\ replayer.left = {} /\ replayer.edits = {} /\ ~replayer.ran
      /\ references.answers = <<>> /\ archive = <<>> /\ ~foreign
  BY DEF EvolveInit, NoClone, Asleep, CloneFields, ReplayerFields
<1>2. DOMAIN archive = {} /\ DOMAIN references.answers = {}
  BY <1>1
<1> QED BY <1>1, <1>2 DEF EvolveInv, EvolveTypes, Isolated, Rooted, Tidy, Compiles, Underlies, Grades, CheckoutRestored,
             Answered, TeachersOnly, InTask, Tryable

---------------------------------------------------------------------------
(* Steps between replays.                                                  *)

LEMMA RestingHolds ==
  ASSUME EvolveTypes', Isolated', Rooted', Tidy', Answered', ~InTask', (replayer.pc # "replay")', (~replayer.ran)',
         (replayer.pc = "teach" => Harnessed(clone, Teacher))'
  PROVE  EvolveInv'
BY DEF EvolveInv, Compiles, Underlies, Grades, CheckoutRestored, InTask

(* A step of `oac evolve` or of the user, while no script runs.            *)
LEMMA IdleHolds ==
  ASSUME EvolveInv, replayer.pc = "idle", UNCHANGED <<replayer, references>>,
         DOMAIN clone' = CloneFields, clone'.stage \in {"cloned", "isolated", "profiled", "ready"}, IsClone(clone'),
         ~clone'.detached => clone'.at = clone'.tip, Owned(clone'.tip) => Owned(clone'.at),
         clone'.stage # "ready" => ~foreign', ~foreign' => CleanTree(clone'),
         clone'.stage \in {"isolated", "profiled", "ready"} /\ clone'.working => ~clone'.connected,
         \A i \in DOMAIN archive' : ~archive'[i].connected
  PROVE  EvolveInv'
<1>1. EvolveTypes /\ Answered /\ ~replayer.ran /\ ~InTask
  BY DEF EvolveInv, Grades, InTask
<1>2. EvolveTypes'
  BY <1>1 DEF EvolveTypes, InTask
<1>3. Rooted'
  BY <1>1 DEF Rooted, InTask, EvolveTypes
<1>4. Tidy' /\ Isolated' /\ Answered'
  BY <1>1 DEF Tidy, Isolated, Answered, InTask
<1> QED BY <1>1, <1>2, <1>3, <1>4, RestingHolds DEF InTask

SameTree == /\ clone'.tip = clone.tip /\ clone'.at = clone.at /\ clone'.detached = clone.detached
            /\ clone'.tree = clone.tree
SameGit  == SameTree /\ clone'.staged = clone.staged /\ DOMAIN clone' = DOMAIN clone

LEMMA SetupHolds ==
  ASSUME EvolveInv, Isolate \/ StripRemotes \/ Profile \/ Package \/ EndEvolve \/ AddRemote
  PROVE  EvolveInv'
<1>1. EvolveTypes /\ Isolated /\ Rooted /\ Tidy
  BY DEF EvolveInv
<1>2. UNCHANGED <<replayer, references, foreign>> /\ replayer.pc = "idle" /\ ~InTask
  BY <1>1 DEF EvolveTypes, Isolate, StripRemotes, Profile, Package, EndEvolve, AddRemote, InTask
<1>3. CASE Isolate
  <2>1. PICK h \in Histories :
          clone' = [NoClone EXCEPT !.stage = "cloned", !.connected = TRUE, !.tip = h, !.at = h, !.tree = Tree(h)]
    BY <1>3 DEF Isolate
  <2>2. /\ DOMAIN clone' = CloneFields /\ clone'.stage = "cloned" /\ clone'.tip = h /\ clone'.at = h /\ ~clone'.detached
        /\ clone'.tree = Tree(h) /\ clone'.detached \in BOOLEAN /\ clone'.staged = {}
    BY <2>1 DEF NoClone, CloneFields
  <2>3. IsClone(clone')
    BY <2>2, HistoryCommits, CommitHasTree DEF IsClone
  <2>4. CleanTree(clone') /\ ~foreign'
    <3>1. ~foreign /\ foreign' = foreign
      BY <1>1, <1>3 DEF Tidy, Isolate
    <3>2. CleanTree(clone')
      BY <2>2 DEF CleanTree
    <3> QED BY <3>1, <3>2
  <2>5. \A i \in DOMAIN archive' : ~archive'[i].connected
    BY <1>1, <1>3 DEF Isolate, Isolated
  <2> QED BY <1>2, <2>2, <2>3, <2>4, <2>5, IdleHolds
<1>4. CASE StripRemotes \/ Profile \/ Package \/ EndEvolve \/ AddRemote
  <2>1. clone.stage # "none" /\ IsClone(clone) /\ DOMAIN clone = CloneFields /\ (~foreign => CleanTree(clone))
    BY <1>1, <1>2, <1>4 DEF EvolveTypes, StripRemotes, Profile, Package, EndEvolve, AddRemote, Tidy
  <2>2. SameGit
    BY <1>4, <2>1 DEF SameGit, SameTree, CloneFields, StripRemotes, Profile, Package, EndEvolve, AddRemote
  <2>3. /\ clone'.stage \in {"cloned", "isolated", "profiled", "ready"}
        /\ clone'.stage # "ready" => clone.stage # "ready"
        /\ clone'.stage \in {"isolated", "profiled", "ready"} /\ clone'.working => ~clone'.connected
    <3>1. CASE StripRemotes
      BY <2>1, <3>1 DEF StripRemotes, CloneFields
    <3>2. CASE Profile
      BY <1>1, <2>1, <3>2 DEF Profile, CloneFields, Isolated
    <3>3. CASE Package \/ EndEvolve
      <4>1. clone'.stage = clone.stage /\ ~clone'.working
        BY <2>1, <3>3 DEF Package, EndEvolve, CloneFields
      <4> QED BY <1>1, <2>1, <4>1 DEF EvolveTypes
    <3>4. CASE AddRemote
      BY <2>1, <3>4 DEF AddRemote, CloneFields
    <3> QED BY <1>4, <3>1, <3>2, <3>3, <3>4
  <2>4. \A i \in DOMAIN archive' : ~archive'[i].connected
    <3>1. CASE Package
      BY <1>1, <3>1 DEF Package, Isolated
    <3>2. CASE ~Package
      BY <1>1, <1>4, <3>2 DEF StripRemotes, Profile, EndEvolve, AddRemote, Isolated
    <3> QED BY <3>1, <3>2
  <2>5. IsClone(clone') /\ (~foreign' => CleanTree(clone')) /\ (clone'.stage # "ready" => ~foreign')
    BY <1>1, <1>2, <2>1, <2>2, <2>3 DEF SameGit, SameTree, IsClone, CleanTree, Tidy
  <2>6. (~clone'.detached => clone'.at = clone'.tip) /\ (Owned(clone'.tip) => Owned(clone'.at))
    BY <1>1, <2>1, <2>2 DEF SameGit, SameTree, Rooted
  <2> QED BY <1>2, <2>1, <2>2, <2>3, <2>4, <2>5, <2>6, IdleHolds DEF SameGit, SameTree
<1> QED BY <1>3, <1>4

LEMMA SynthesizeHolds ==
  ASSUME EvolveInv, Synthesize
  PROVE  EvolveInv'
<1>1. EvolveTypes /\ Isolated /\ Rooted /\ Tidy
  BY DEF EvolveInv
<1>2. UNCHANGED <<replayer, references, archive>> /\ replayer.pc = "idle" /\ ~InTask /\ IsClone(clone) /\ ~foreign
      /\ CleanTree(clone) /\ ~clone.connected
  BY <1>1 DEF EvolveTypes, Synthesize, InTask, Tidy, Isolated
<1>3. PICK deployed \in {{}, Skills} :
        /\ clone' = [CompiledInto(clone, Ours) EXCEPT
             !.stage = "ready",
             !.tree = [p \in RepoPaths |-> IF p \in deployed THEN Bundle ELSE CompiledInto(clone, Ours).tree[p]]]
        /\ foreign' = (deployed # {})
  BY DEF Synthesize
<1>4. PICK g : g = CompiledInto(clone, Ours)
  OBVIOUS
<1>5. /\ IsClone(g) /\ g.tip = clone.tip /\ g.at = clone.at /\ g.detached = clone.detached /\ g.connected = clone.connected
      /\ CleanTree(g)
  BY <1>2, <1>4, CompiledIs DEF Tryable
<1> DEFINE t == [p \in RepoPaths |-> IF p \in deployed THEN Bundle ELSE g.tree[p]]
<1>6. t \in Trees
  BY <1>5 DEF IsClone, Trees, Content
<1>7. /\ DOMAIN clone' = CloneFields /\ clone'.stage = "ready" /\ clone'.tip = g.tip /\ clone'.at = g.at
      /\ clone'.detached = g.detached /\ clone'.connected = g.connected /\ clone'.tree = t /\ clone'.staged = g.staged
  <2>1. clone' = [g EXCEPT !.stage = "ready", !.tree = t]
    BY <1>3, <1>4
  <2> HIDE DEF t
  <2> QED BY <1>5, <2>1 DEF IsClone, CloneFields
<1>8. IsClone(clone')
  BY <1>5, <1>6, <1>7 DEF IsClone
<1>9. ~foreign' => CleanTree(clone')
  <2> SUFFICES ASSUME ~foreign' PROVE CleanTree(clone')
    OBVIOUS
  <2>1. deployed = {}
    BY <1>3
  <2>2. \A p \in RepoPaths : t[p] = g.tree[p]
    BY <2>1
  <2> HIDE DEF t
  <2> QED BY <1>5, <1>7, <2>2 DEF CleanTree
<1>10. (~clone'.detached => clone'.at = clone'.tip) /\ (Owned(clone'.tip) => Owned(clone'.at))
  BY <1>1, <1>5, <1>7, <1>2 DEF Rooted, Synthesize
<1> QED BY <1>1, <1>2, <1>5, <1>7, <1>8, <1>9, <1>10, IdleHolds DEF Isolated

(* A script starts, goes to its next candidate, writes references or dies: *)
(* the copy stays as it is.                                                *)
LEMMA TurnHolds ==
  ASSUME EvolveInv, UNCHANGED <<clone, archive>>,
         DOMAIN replayer' = ReplayerFields, replayer'.pc \in {"idle", "pick", "write"}, ~replayer'.ran,
         replayer'.pc # "idle" => clone.stage = "ready" /\ ~clone.working,
         replayer'.definition \in Tryable, replayer'.best # <<>> => replayer'.best[1].definition \in Tryable,
         replayer'.commits \subseteq LongCommits, replayer'.left \subseteq LongCommits, replayer'.edits \subseteq Editable,
         replayer'.pc = "idle" => replayer'.commits = {} /\ replayer'.left = {},
         Owned(clone.tip) /\ clone.stage # "none" => \A c \in replayer'.commits \cup replayer'.left : Owned(c),
         ~foreign' => ~foreign /\ ~InTask, clone.stage # "ready" => ~foreign', Answered'
  PROVE  EvolveInv'
<1>1. EvolveTypes /\ Isolated /\ Rooted /\ Tidy
  BY DEF EvolveInv
<1>2. ~InTask' /\ (replayer.pc # "replay")' /\ (replayer.pc # "teach")'
  BY DEF InTask
<1>3. EvolveTypes'
  BY <1>1, <1>2 DEF EvolveTypes
<1>4. Rooted'
  BY <1>1, <1>2 DEF Rooted
<1>5. Isolated' /\ Tidy'
  BY <1>1, <1>2 DEF Isolated, Tidy
<1> QED BY <1>2, <1>3, <1>4, <1>5, RestingHolds

LEMMA DiesHolds ==
  ASSUME EvolveInv, EvolveDies
  PROVE  EvolveInv'
<1>1. EvolveTypes /\ Tidy /\ Answered
  BY DEF EvolveInv
<1>2. /\ UNCHANGED <<clone, archive, references>>
      /\ replayer' = Asleep(replayer.started, replayer.tried)
      /\ foreign' = (foreign \/ replayer.pc \in {"task", "diff", "restore"})
      /\ clone.stage = "ready"
  BY <1>1 DEF EvolveDies, EvolveTypes
<1>3. /\ DOMAIN replayer' = ReplayerFields /\ replayer'.pc = "idle" /\ ~replayer'.ran /\ replayer'.definition = Ours
      /\ replayer'.best = <<>> /\ replayer'.commits = {} /\ replayer'.left = {} /\ replayer'.edits = {}
  BY <1>2 DEF Asleep, ReplayerFields
<1>4. ~foreign' => ~foreign /\ ~InTask
  BY <1>2 DEF InTask
<1>5. Answered'
  BY <1>1, <1>2, <1>3 DEF Answered
<1>6. Ours \in Tryable
  BY DEF Tryable
<1> QED BY <1>2, <1>3, <1>4, <1>5, <1>6, TurnHolds

LEMMA StartReplaysHolds ==
  ASSUME EvolveInv, StartReplays
  PROVE  EvolveInv'
<1>1. EvolveTypes /\ Rooted /\ Answered
  BY DEF EvolveInv
<1>2. /\ UNCHANGED <<clone, archive, references, foreign>> /\ replayer.pc = "idle" /\ clone.stage = "ready" /\ ~clone.working
      /\ replayer' = [Asleep(replayer.started + 1, replayer.tried) EXCEPT
                        !.pc = "pick", !.script = "replay", !.commits = Selected(clone.at)]
  BY DEF StartReplays, Startable
<1>3. /\ DOMAIN replayer' = ReplayerFields /\ replayer'.pc = "pick" /\ ~replayer'.ran /\ replayer'.definition = Ours
      /\ replayer'.best = <<>> /\ replayer'.commits = Selected(clone.at) /\ replayer'.left = {} /\ replayer'.edits = {}
  BY <1>2 DEF Asleep, ReplayerFields
<1>4. clone.at \in Commits /\ (Owned(clone.tip) => Owned(clone.at))
  BY <1>1, <1>2 DEF EvolveTypes, IsClone, Rooted
<1>5. \A c \in Selected(clone.at) : c \in LongCommits /\ (Owned(clone.at) => Owned(c))
  BY <1>4, SelectedCommits
<1>6. Answered'
  BY <1>1, <1>2, <1>3 DEF Answered
<1>7. Ours \in Tryable /\ ~InTask
  BY <1>2 DEF Tryable, InTask
<1>8. foreign' = foreign
  BY <1>2
<1> QED BY <1>2, <1>3, <1>4, <1>5, <1>6, <1>7, <1>8, TurnHolds

LEMMA EvaluatedHolds ==
  ASSUME EvolveInv, Evaluated
  PROVE  EvolveInv'
<1>1. EvolveTypes /\ Rooted /\ Tidy /\ Answered
  BY DEF EvolveInv
<1>2. /\ UNCHANGED <<clone, archive, references, foreign>> /\ replayer.pc \in {"replay", "student"}
      /\ replayer' = [Asleep(replayer.started, replayer.tried) EXCEPT
                    !.pc = "pick", !.script = replayer.script, !.commits = replayer.commits,
                    !.best = BestSoFar(replayer.best, replayer.definition, replayer.total), !.gap = replayer.gap]
  BY DEF Evaluated
<1>3. /\ DOMAIN replayer' = ReplayerFields /\ replayer'.pc = "pick" /\ ~replayer'.ran /\ replayer'.definition = Ours
      /\ replayer'.best = BestSoFar(replayer.best, replayer.definition, replayer.total)
      /\ replayer'.commits = replayer.commits /\ replayer'.left = {} /\ replayer'.edits = {}
  BY <1>2 DEF Asleep, ReplayerFields
<1>4. clone.stage = "ready" /\ ~clone.working /\ ~InTask /\ foreign' = foreign
  BY <1>1, <1>2 DEF EvolveTypes, InTask
<1>5. replayer'.best # <<>> => replayer'.best[1].definition \in Tryable
  BY <1>1, <1>3 DEF BestSoFar, EvolveTypes
<1>6. Answered'
  BY <1>1, <1>2, <1>3 DEF Answered
<1>7. Ours \in Tryable
  BY DEF Tryable
<1>8. replayer'.commits \subseteq LongCommits /\ (Owned(clone.tip) => \A c \in replayer'.commits : Owned(c))
  BY <1>1, <1>3, <1>4 DEF EvolveTypes, Rooted
<1> QED BY <1>2, <1>3, <1>4, <1>5, <1>6, <1>7, <1>8, TurnHolds

LEMMA ReferencesHold ==
  ASSUME EvolveInv, OpenReferences \/ FillReferences
  PROVE  EvolveInv'
<1>1. EvolveTypes /\ Rooted /\ Tidy /\ Answered /\ Grades
  BY DEF EvolveInv
<1>2. /\ UNCHANGED <<clone, archive, foreign>> /\ replayer.pc \in {"teach", "write"} /\ ~InTask
      /\ \/ replayer.pc = "teach" /\ references'.answers = <<>> /\ replayer' = [replayer EXCEPT !.pc = "write"]
         \/ replayer.pc = "write" /\ references'.answers = replayer.answers /\ replayer' = [replayer EXCEPT !.pc = "pick", !.answers = <<>>]
  BY DEF OpenReferences, FillReferences, InTask
<1>3. /\ DOMAIN replayer' = ReplayerFields /\ replayer'.pc \in {"pick", "write"} /\ replayer'.ran = replayer.ran
      /\ replayer'.definition = replayer.definition /\ replayer'.best = replayer.best
      /\ replayer'.commits = replayer.commits /\ replayer'.left = replayer.left /\ replayer'.edits = replayer.edits
      /\ replayer'.pc = "write" => replayer'.answers = replayer.answers
  <2>1. CASE replayer' = [replayer EXCEPT !.pc = "write"]
    BY <1>1, <2>1 DEF EvolveTypes, ReplayerFields
  <2>2. CASE replayer' = [replayer EXCEPT !.pc = "pick", !.answers = <<>>]
    BY <1>1, <2>2 DEF EvolveTypes, ReplayerFields
  <2> QED BY <1>2, <2>1, <2>2
<1>4. clone.stage = "ready" /\ ~clone.working /\ foreign' = foreign /\ ~replayer.ran
  BY <1>1, <1>2 DEF EvolveTypes, Grades
<1>5. Answered'
  <2>1. TeachersOnly(replayer.answers)
    BY <1>1, <1>2 DEF Answered
  <2>2. TeachersOnly(references'.answers)
    <3>1. DOMAIN <<>> = {}
      OBVIOUS
    <3> QED BY <1>2, <2>1, <3>1 DEF TeachersOnly
  <2> QED BY <1>3, <2>1, <2>2 DEF Answered, TeachersOnly
<1>6. Owned(clone.tip) => \A c \in replayer'.commits \cup replayer'.left : Owned(c)
  BY <1>1, <1>3, <1>4 DEF Rooted
<1>7. /\ replayer'.definition \in Tryable /\ (replayer'.best # <<>> => replayer'.best[1].definition \in Tryable)
      /\ replayer'.commits \subseteq LongCommits /\ replayer'.left \subseteq LongCommits /\ replayer'.edits \subseteq Editable
  BY <1>1, <1>3 DEF EvolveTypes
<1> QED BY <1>2, <1>3, <1>4, <1>5, <1>6, <1>7, TurnHolds

---------------------------------------------------------------------------
(* Steps that change the tree between replays.                             *)

LEMMA StartTeacherHolds ==
  ASSUME EvolveInv, StartTeacher
  PROVE  EvolveInv'
<1>1. EvolveTypes /\ Isolated /\ Rooted /\ Tidy /\ Answered
  BY DEF EvolveInv
<1>2. /\ UNCHANGED <<archive, references, foreign>> /\ replayer.pc = "idle" /\ clone.stage = "ready" /\ ~clone.working
      /\ replayer' = [Asleep(replayer.started + 1, replayer.tried) EXCEPT
                        !.pc = IF references.state = "none" THEN "teach" ELSE "pick", !.script = "teacher"]
      /\ IF references.state = "none" THEN clone' = CompiledInto(clone, Teacher) ELSE UNCHANGED clone
  BY DEF StartTeacher, Startable
<1>3. /\ DOMAIN replayer' = ReplayerFields /\ ~replayer'.ran /\ replayer'.definition = Ours
      /\ replayer'.pc = (IF references.state = "none" THEN "teach" ELSE "pick")
      /\ replayer'.best = <<>> /\ replayer'.commits = {} /\ replayer'.left = {} /\ replayer'.edits = {} /\ replayer'.answers = <<>>
  BY <1>2 DEF Asleep, ReplayerFields
<1>4. /\ IsClone(clone') /\ DOMAIN clone' = CloneFields /\ clone'.stage = "ready" /\ ~clone'.working
      /\ clone'.tip = clone.tip /\ clone'.at = clone.at /\ clone'.detached = clone.detached
      /\ CleanTree(clone) => CleanTree(clone')
      /\ replayer'.pc = "teach" => Harnessed(clone', Teacher)
  <2>1. IsClone(clone) /\ Teacher \in Tryable
    BY <1>1, <1>2 DEF EvolveTypes, Tryable
  <2>2. CASE references.state = "none"
    BY <1>2, <2>1, <2>2, CompiledIs DEF IsClone
  <2>3. CASE references.state # "none"
    BY <1>2, <1>3, <2>1, <2>3 DEF IsClone
  <2> QED BY <2>2, <2>3
<1>5. ~InTask /\ ~InTask' /\ replayer'.pc \in {"teach", "pick"} /\ Ours \in Tryable
  BY <1>2, <1>3 DEF InTask, Tryable
<1>6. EvolveTypes'
  BY <1>1, <1>3, <1>4, <1>5 DEF EvolveTypes
<1>7. Rooted'
  BY <1>1, <1>2, <1>3, <1>4, <1>5 DEF Rooted
<1>8. Tidy' /\ Isolated'
  BY <1>1, <1>2, <1>4, <1>5 DEF Tidy, Isolated
<1>9. Answered'
  <2>1. DOMAIN replayer'.answers = {}
    BY <1>3
  <2> QED BY <1>1, <1>2, <2>1 DEF Answered, TeachersOnly
<1> QED BY <1>3, <1>4, <1>5, <1>6, <1>7, <1>8, <1>9, RestingHolds

LEMMA PromoteHolds ==
  ASSUME EvolveInv, PromoteEvolved
  PROVE  EvolveInv'
<1>1. EvolveTypes /\ Isolated /\ Rooted /\ Tidy /\ Answered
  BY DEF EvolveInv
<1>2. /\ UNCHANGED <<archive, references, foreign>> /\ replayer.pc = "pick" /\ replayer.best # <<>>
      /\ clone' = [clone EXCEPT !.tree = [clone.tree EXCEPT !["improved"] = replayer.best[1].definition]]
      /\ replayer' = Asleep(replayer.started, replayer.tried)
  BY DEF PromoteEvolved
<1>3. /\ DOMAIN replayer' = ReplayerFields /\ replayer'.pc = "idle" /\ ~replayer'.ran /\ replayer'.definition = Ours
      /\ replayer'.best = <<>> /\ replayer'.commits = {} /\ replayer'.left = {} /\ replayer'.edits = {}
  BY <1>2 DEF Asleep, ReplayerFields
<1>4. IsClone(clone) /\ clone.stage = "ready" /\ ~clone.working /\ replayer.best[1].definition \in Content
  BY <1>1, <1>2 DEF EvolveTypes, Content
<1> DEFINE t == [clone.tree EXCEPT !["improved"] = replayer.best[1].definition]
<1>5. t \in Trees /\ \A p \in RepoPaths : p # "improved" => t[p] = clone.tree[p]
  BY <1>4 DEF IsClone, Trees
<1>6. /\ DOMAIN clone' = CloneFields /\ clone'.stage = "ready" /\ ~clone'.working /\ clone'.tree = t
      /\ clone'.tip = clone.tip /\ clone'.at = clone.at /\ clone'.detached = clone.detached /\ clone'.staged = clone.staged
  <2>1. clone' = [clone EXCEPT !.tree = t]
    BY <1>2
  <2> HIDE DEF t
  <2> QED BY <1>4, <2>1 DEF IsClone, CloneFields
<1> HIDE DEF t
<1>7. IsClone(clone') /\ (CleanTree(clone) => CleanTree(clone'))
  BY <1>4, <1>5, <1>6, EvolveAssumption DEF IsClone, CleanTree, EvolveAssumption
<1>8. ~InTask /\ ~InTask' /\ Ours \in Tryable
  BY <1>2, <1>3 DEF InTask, Tryable
<1>9. EvolveTypes' /\ Rooted'
  BY <1>1, <1>3, <1>4, <1>6, <1>7, <1>8 DEF EvolveTypes, Rooted
<1>10. Tidy' /\ Isolated' /\ Answered'
  BY <1>1, <1>2, <1>3, <1>4, <1>6, <1>7, <1>8 DEF Tidy, Isolated, Answered
<1> QED BY <1>3, <1>8, <1>9, <1>10, RestingHolds

(* A teacher's or a candidate's run edits the tree, and nothing is taken   *)
(* back.                                                                   *)
LEMMA EditHolds ==
  ASSUME EvolveInv, NEW edits \in SUBSET Editable, clone' = Edited(clone, edits) \/ (edits = {} /\ clone' = clone),
         ~foreign' => ~foreign /\ edits = {},
         UNCHANGED <<archive, references>>, replayer.pc \in {"teach", "student"},
         DOMAIN replayer' = ReplayerFields, replayer'.pc = replayer.pc, replayer'.ran = replayer.ran,
         replayer'.definition = replayer.definition, replayer'.best = replayer.best, replayer'.commits = replayer.commits,
         replayer'.left = replayer.left, replayer'.edits = replayer.edits,
         replayer.pc = "teach" => TeachersOnly(replayer'.answers)
  PROVE  EvolveInv'
<1>1. EvolveTypes /\ Isolated /\ Rooted /\ Tidy /\ Compiles /\ Grades /\ Answered
  BY DEF EvolveInv
<1>2. ~InTask /\ ~InTask' /\ IsClone(clone) /\ clone.stage = "ready" /\ ~clone.working /\ ~replayer.ran
  BY <1>1 DEF InTask, EvolveTypes, Grades
<1>3. /\ IsClone(clone') /\ clone'.tip = clone.tip /\ clone'.at = clone.at /\ clone'.detached = clone.detached
      /\ clone'.connected = clone.connected /\ clone'.stage = clone.stage /\ clone'.working = clone.working
      /\ \A p \in RepoPaths : clone'.tree[p] = IF p \in edits THEN Mine ELSE clone.tree[p]
  <2>1. CASE clone' = Edited(clone, edits)
    BY <1>2, <2>1, EditedIs
  <2>2. CASE edits = {} /\ clone' = clone
    BY <1>2, <2>2
  <2> QED BY <2>1, <2>2
<1>4. EvolveTypes' /\ Rooted' /\ Isolated'
  BY <1>1, <1>2, <1>3 DEF EvolveTypes, Rooted, Isolated, IsClone
<1>5. Tidy'
  <2> SUFFICES ASSUME ~foreign' PROVE CleanTree(clone')
    BY <1>2, <1>3 DEF Tidy
  <2>1. edits = {} /\ ~foreign
    OBVIOUS
  <2> QED BY <1>1, <1>2, <1>3, <2>1 DEF Tidy, CleanTree
<1>6. (replayer.pc = "teach" => Harnessed(clone, Teacher))'
  <2>1. \A p \in Compiled : p \in RepoPaths /\ p \notin edits
    BY EvolveAssumption, RepositoryAssumption DEF EvolveAssumption, RepositoryAssumption
  <2> QED BY <1>1, <1>3, <2>1 DEF Compiles, Harnessed
<1>7. Answered'
  BY <1>1 DEF Answered, TeachersOnly
<1> QED BY <1>2, <1>4, <1>5, <1>6, <1>7, RestingHolds

LEMMA TeachHolds ==
  ASSUME EvolveInv, Teach
  PROVE  EvolveInv'
<1>1. EvolveTypes /\ Compiles /\ Answered
  BY DEF EvolveInv
<1>2. PICK edits \in SUBSET Editable, failed \in BOOLEAN, blank \in BOOLEAN :
        /\ clone' = Edited(clone, edits) /\ foreign' = (foreign \/ edits # {})
        /\ replayer' = [replayer EXCEPT !.next = @ + 1,
             !.answers = Reference(@, Tasks[replayer.next], [by |-> Harness, blank |-> blank, failed |-> failed])]
  BY DEF Teach
<1>3. UNCHANGED <<archive, references>> /\ replayer.pc = "teach"
  BY DEF Teach
<1> DEFINE a == [by |-> Harness, blank |-> blank, failed |-> failed]
           task == Tasks[replayer.next]
<1>4. /\ DOMAIN replayer' = ReplayerFields /\ replayer'.pc = replayer.pc /\ replayer'.ran = replayer.ran
      /\ replayer'.definition = replayer.definition /\ replayer'.best = replayer.best /\ replayer'.commits = replayer.commits
      /\ replayer'.left = replayer.left /\ replayer'.edits = replayer.edits
      /\ replayer'.answers = Reference(replayer.answers, task, a)
  BY <1>1, <1>2 DEF EvolveTypes, ReplayerFields
<1>5. TeachersOnly(replayer'.answers)
  <2>1. TeachersOnly(replayer.answers) /\ Harnessed(clone, Teacher)
    BY <1>1, <1>3 DEF Answered, Compiles
  <2>2. CASE failed
    BY <1>4, <2>1, <2>2 DEF Reference
  <2>3. CASE ~failed
    <3>1. replayer'.answers = [t \in DOMAIN replayer.answers \cup {task} |-> IF t = task THEN a ELSE replayer.answers[t]]
      BY <1>4, <2>3 DEF Reference
    <3>2. ~a.failed /\ \A p \in Compiled : a.by[p] = Loaded(Teacher)
      BY <2>1, <2>3 DEF Harness, Harnessed
    <3> HIDE DEF a, task
    <3> QED BY <2>1, <3>1, <3>2 DEF TeachersOnly
  <2> QED BY <2>2, <2>3
<1> QED BY <1>2, <1>3, <1>4, <1>5, EditHolds

LEMMA StudyHolds ==
  ASSUME EvolveInv, Study
  PROVE  EvolveInv'
<1>1. EvolveTypes
  BY DEF EvolveInv
<1>2. UNCHANGED <<archive, references>> /\ replayer.pc = "student"
  BY DEF Study
<1>3. CASE Tasks[replayer.next] \notin DOMAIN references.answers
  <2>1. replayer' = [replayer EXCEPT !.next = @ + 1] /\ UNCHANGED <<clone, foreign>>
    BY <1>3 DEF Study
  <2>2. /\ DOMAIN replayer' = ReplayerFields /\ replayer'.pc = replayer.pc /\ replayer'.ran = replayer.ran
        /\ replayer'.definition = replayer.definition /\ replayer'.best = replayer.best /\ replayer'.commits = replayer.commits
        /\ replayer'.left = replayer.left /\ replayer'.edits = replayer.edits
    BY <1>1, <2>1 DEF EvolveTypes, ReplayerFields
  <2>3. PICK edits \in SUBSET Editable : edits = {}
    OBVIOUS
  <2> QED BY <1>2, <2>1, <2>2, <2>3, EditHolds
<1>4. CASE Tasks[replayer.next] \in DOMAIN references.answers
  <2>1. PICK edits \in SUBSET Editable, blank \in BOOLEAN :
          LET score == Alike(references.answers[Tasks[replayer.next]], blank) IN
          /\ clone' = Edited(clone, edits) /\ foreign' = (foreign \/ edits # {})
          /\ replayer' = [replayer EXCEPT
               !.next = @ + 1, !.total = @ + score,
               !.gap = IF replayer.total = 0 \/ @ = <<>> \/ score < @[1].score
                       THEN <<[task |-> Tasks[replayer.next], score |-> score]>> ELSE @]
    BY <1>4 DEF Study
  <2>2. /\ DOMAIN replayer' = ReplayerFields /\ replayer'.pc = replayer.pc /\ replayer'.ran = replayer.ran
        /\ replayer'.definition = replayer.definition /\ replayer'.best = replayer.best /\ replayer'.commits = replayer.commits
        /\ replayer'.left = replayer.left /\ replayer'.edits = replayer.edits
    BY <1>1, <2>1 DEF EvolveTypes, ReplayerFields
  <2>3. ~foreign' => ~foreign /\ edits = {}
    BY <2>1
  <2> QED BY <1>2, <2>1, <2>2, <2>3, EditHolds
<1> QED BY <1>3, <1>4

LEMMA TryHolds ==
  ASSUME EvolveInv, Try
  PROVE  EvolveInv'
<1>1. EvolveTypes /\ Isolated /\ Rooted /\ Tidy /\ Grades /\ Answered
  BY DEF EvolveInv
<1>2. PICK d \in Definitions :
        /\ replayer' = [replayer EXCEPT !.pc = IF replayer.script = "replay" THEN "replay" ELSE "student",
                          !.tried = @ + 1, !.left = replayer.commits, !.next = 1, !.definition = d, !.total = 0]
        /\ clone' = CompiledInto(clone, d)
  BY DEF Try
<1>3. UNCHANGED <<references, archive, foreign>> /\ replayer.pc = "pick"
  BY DEF Try
<1>4. /\ DOMAIN replayer' = ReplayerFields /\ replayer'.pc \in {"replay", "student"} /\ replayer'.ran = replayer.ran
      /\ replayer'.definition = d /\ replayer'.best = replayer.best /\ replayer'.commits = replayer.commits
      /\ replayer'.left = replayer.commits /\ replayer'.edits = replayer.edits
  BY <1>1, <1>2 DEF EvolveTypes, ReplayerFields
<1>5. ~InTask /\ ~InTask' /\ IsClone(clone) /\ clone.stage = "ready" /\ ~clone.working /\ ~replayer.ran /\ d \in Tryable
  BY <1>1, <1>3, <1>4 DEF InTask, EvolveTypes, Grades, Tryable
<1>6. /\ IsClone(clone') /\ clone'.tip = clone.tip /\ clone'.at = clone.at /\ clone'.detached = clone.detached
      /\ clone'.connected = clone.connected /\ clone'.stage = clone.stage /\ clone'.working = clone.working
      /\ CleanTree(clone) => CleanTree(clone')
      /\ Harnessed(clone', d)
  BY <1>2, <1>5, CompiledIs
<1>7. EvolveTypes' /\ Rooted' /\ Isolated'
  BY <1>1, <1>3, <1>4, <1>5, <1>6 DEF EvolveTypes, Rooted, Isolated, IsClone
<1>8. Tidy' /\ Answered' /\ Compiles'
  BY <1>1, <1>3, <1>4, <1>5, <1>6 DEF Tidy, Answered, Compiles
<1>9. Underlies' /\ Grades' /\ CheckoutRestored'
  BY <1>4, <1>5 DEF Underlies, Grades, CheckoutRestored, InTask
<1> QED BY <1>7, <1>8, <1>9 DEF EvolveInv

---------------------------------------------------------------------------
(* Replays.                                                                *)

LEMMA RefuseHolds ==
  ASSUME EvolveInv, RefuseReplay
  PROVE  EvolveInv'
<1>1. EvolveTypes /\ Isolated /\ Rooted /\ Tidy /\ Compiles /\ Answered
  BY DEF EvolveInv
<1>2. PICK c \in replayer.left : replayer.pc = "replay" /\ replayer' = [replayer EXCEPT !.left = @ \ {c}, !.ran = FALSE]
  BY DEF RefuseReplay, Replaying
<1>3. UNCHANGED <<clone, references, archive, foreign>>
  BY DEF RefuseReplay
<1>4. /\ DOMAIN replayer' = ReplayerFields /\ replayer'.pc = "replay" /\ ~replayer'.ran
      /\ replayer'.definition = replayer.definition /\ replayer'.best = replayer.best /\ replayer'.commits = replayer.commits
      /\ replayer'.left \subseteq replayer.left /\ replayer'.edits = replayer.edits
  BY <1>1, <1>2 DEF EvolveTypes, ReplayerFields
<1>5. ~InTask /\ ~InTask'
  BY <1>2, <1>4 DEF InTask
<1>6. EvolveTypes' /\ Rooted' /\ Isolated'
  BY <1>1, <1>2, <1>3, <1>4, <1>5 DEF EvolveTypes, Rooted, Isolated
<1>7. Tidy' /\ Answered' /\ Compiles'
  BY <1>1, <1>2, <1>3, <1>4, <1>5 DEF Tidy, Answered, Compiles
<1>8. Underlies' /\ Grades' /\ CheckoutRestored'
  BY <1>4, <1>5 DEF Underlies, Grades, CheckoutRestored, InTask
<1> QED BY <1>6, <1>7, <1>8 DEF EvolveInv

LEMMA BeginReplayHolds ==
  ASSUME EvolveInv, BeginReplay
  PROVE  EvolveInv'
<1>1. EvolveTypes /\ Isolated /\ Rooted /\ Tidy /\ Compiles /\ Answered
  BY DEF EvolveInv
<1>2. PICK c \in replayer.left :
        /\ replayer.pc = "replay"
        /\ clone' = Checkout(clone, Front(c), TRUE)
        /\ replayer' = [replayer EXCEPT !.pc = "task", !.left = @ \ {c}, !.commit = c, !.found = clone,
                          !.own = Untracked({clone.tip, clone.at, c}),
                          !.fair = Untracked({clone.tip, clone.at, c}) /\ ~foreign, !.ran = TRUE, !.edits = {}, !.changed = {},
                          !.score = 0, !.failed = FALSE, !.committed = FALSE]
  BY DEF BeginReplay, Replaying
<1>3. UNCHANGED <<references, archive, foreign>> /\ ~clone.connected
  BY DEF BeginReplay
<1>4. /\ DOMAIN replayer' = ReplayerFields /\ replayer'.pc = "task" /\ replayer'.commit = c /\ replayer'.found = clone
      /\ replayer'.definition = replayer.definition /\ replayer'.best = replayer.best /\ replayer'.commits = replayer.commits
      /\ replayer'.left \subseteq replayer.left /\ replayer'.edits = {} /\ ~replayer'.committed
      /\ replayer'.own = Untracked({clone.tip, clone.at, c})
      /\ replayer'.fair = (Untracked({clone.tip, clone.at, c}) /\ ~foreign)
  BY <1>1, <1>2 DEF EvolveTypes, ReplayerFields
<1>5. ~InTask /\ InTask' /\ IsClone(clone) /\ clone.stage = "ready" /\ ~clone.working /\ c \in LongCommits
  BY <1>1, <1>2, <1>4 DEF InTask, EvolveTypes
<1>6. Front(c) \in Commits /\ (Bare(c) => Bare(Front(c))) /\ (Owned(c) => Owned(Front(c)))
  BY <1>5, FrontCommits
<1>7. /\ IsClone(clone') /\ clone'.tip = clone.tip /\ clone'.connected = clone.connected /\ clone'.stage = clone.stage
      /\ clone'.working = clone.working
      /\ (clone'.at = clone.at /\ clone'.detached = clone.detached) \/ (clone'.at = Front(c) /\ clone'.detached)
  <2>1. PICK d \in BOOLEAN : d = TRUE
    OBVIOUS
  <2>2. clone' = Checkout(clone, Front(c), d)
    BY <1>2, <2>1
  <2>3. /\ IsClone(clone') /\ clone'.tip = clone.tip /\ clone'.connected = clone.connected /\ clone'.stage = clone.stage
        /\ clone'.working = clone.working
        /\ (clone'.at = clone.at /\ clone'.detached = clone.detached) \/ (clone'.at = Front(c) /\ clone'.detached = d)
    BY <1>5, <1>6, <2>2, CheckoutIs
  <2> QED BY <2>1, <2>3
<1>8. \A p \in RepoPaths : Tree(clone.at)[p] = NoFile /\ Tree(Front(c))[p] = NoFile => clone'.tree[p] = clone.tree[p]
  <2>1. PICK d \in BOOLEAN : d = TRUE
    OBVIOUS
  <2>2. clone' = Checkout(clone, Front(c), d)
    BY <1>2, <2>1
  <2> QED BY <1>5, <1>6, <2>2, CheckoutKeeps
<1>9. replayer'.own => Bare(clone.at) /\ Bare(clone.tip) /\ Bare(c)
  BY <1>4 DEF Untracked, Bare
<1>10. EvolveTypes' /\ Isolated'
  BY <1>1, <1>3, <1>4, <1>5, <1>7 DEF EvolveTypes, Isolated, IsClone
<1>11. Owned(clone.tip) => Owned(clone.at) /\ Owned(c)
  BY <1>1, <1>2, <1>5 DEF Rooted
<1>12. Rooted'
  <2>1. ~clone'.detached => clone'.at = clone'.tip
    BY <1>1, <1>5, <1>7 DEF Rooted
  <2>2. Owned(clone'.tip) => Owned(clone'.at)
    BY <1>6, <1>7, <1>11
  <2>3. Owned(clone'.tip) => \A x \in replayer'.commits \cup replayer'.left : Owned(x)
    BY <1>1, <1>4, <1>5, <1>7 DEF Rooted
  <2>4. ~clone.detached => clone.at = clone.tip
    BY <1>1, <1>5 DEF Rooted
  <2> QED BY <1>4, <1>7, <1>11, <2>1, <2>2, <2>3, <2>4 DEF Rooted
<1>13. Tidy' /\ Answered'
  BY <1>1, <1>3, <1>4, <1>5, <1>7 DEF Tidy, Answered
<1>14. Compiles'
  <2> SUFFICES ASSUME Owned(clone'.tip) PROVE Harnessed(clone', replayer'.definition)
    BY <1>4 DEF Compiles
  <2>1. Owned(clone.at) /\ Owned(Front(c)) /\ clone.at \in Commits
    BY <1>5, <1>6, <1>7, <1>11 DEF IsClone
  <2>2. \A p \in Compiled : p \in RepoPaths /\ Tree(clone.at)[p] = NoFile /\ Tree(Front(c))[p] = NoFile
    BY <1>6, <2>1, BareTrees, RepositoryAssumption DEF RepositoryAssumption
  <2>3. Harnessed(clone, replayer.definition)
    BY <1>1, <1>2, <1>7 DEF Compiles
  <2> QED BY <1>4, <1>8, <2>2, <2>3 DEF Harnessed
<1>15. Underlies'
  <2> SUFFICES ASSUME replayer'.own
               PROVE  /\ \A p \in Excluded \cap RepoPaths : clone'.tree[p] = clone.tree[p]
                      /\ \A p \in Nested \cap RepoPaths :
                           clone'.tree[p] = IF p \in Litter(clone) THEN clone.tree[p] ELSE Tree(clone'.at)[p]
    BY <1>4, <1>7, <1>9 DEF Underlies
  <2>1. \A p \in Excluded \cap RepoPaths : Tree(clone.at)[p] = NoFile /\ Tree(Front(c))[p] = NoFile
    BY <1>5, <1>6, <1>9, BareTrees DEF IsClone
  <2>2. /\ Litter(clone') = Litter(clone)
        /\ \A p \in Litter(clone) : clone'.tree[p] = clone.tree[p]
    <3>1. PICK d \in BOOLEAN : d = TRUE
      OBVIOUS
    <3>2. clone' = Checkout(clone, Front(c), d)
      BY <1>2, <3>1
    <3> QED BY <1>5, <1>6, <3>2, CheckoutKeeps
  <2>3. \A p \in (Nested \cap RepoPaths) \ Litter(clone') : clone'.tree[p] = Tree(clone'.at)[p]
    BY DEF Litter
  <2> QED BY <1>8, <2>1, <2>2, <2>3
<1>16. Grades'
  <2>1. replayer'.fair => replayer'.own /\ ~foreign
    BY <1>4
  <2>2. ASSUME replayer'.fair
        PROVE  /\ (\A p \in Litter(clone) : Tree(Front(c))[p] = NoFile) => clone'.at = Front(c)
               /\ \A p \in RepoPaths \ Excluded :
                    clone'.tree[p] = IF p \in Litter(clone) THEN clone.tree[p] ELSE Tree(clone'.at)[p]
    <3>1. CleanTree(clone) /\ Bare(clone.at) /\ Bare(Front(c))
      BY <1>1, <1>5, <1>6, <1>9, <2>1, <2>2 DEF Tidy
    <3>2. PICK d \in BOOLEAN : d = TRUE
      OBVIOUS
    <3>3. clone' = Checkout(clone, Front(c), d)
      BY <1>2, <3>2
    <3>4. (\A p \in Litter(clone) : Tree(Front(c))[p] = NoFile) => clone'.at = Front(c)
      BY <1>5, <1>6, <3>1, <3>3, CheckoutMoves
    <3>5. \A p \in RepoPaths \ Excluded : p \notin Litter(clone) => clone.tree[p] = Tree(clone.at)[p]
      BY <3>1 DEF CleanTree, Litter
    <3>6. /\ Litter(clone') = Litter(clone) /\ CleanTree(clone')
          /\ \A p \in Litter(clone) : clone'.tree[p] = clone.tree[p]
      BY <1>5, <1>6, <3>1, <3>3, CheckoutKeeps
    <3>7. \A p \in RepoPaths \ Excluded : p \notin Litter(clone') => clone'.tree[p] = Tree(clone'.at)[p]
      BY <3>6 DEF CleanTree, Litter
    <3> QED BY <3>4, <3>6, <3>7
  <2>3. ParentTracksNone' <=> \A p \in Litter(clone) : Tree(Front(c))[p] = NoFile
    BY <1>4 DEF ParentTracksNone
  <2>4. \A p : LeftAt(p)' = clone.tree[p]
    BY <1>4 DEF LeftAt
  <2> QED BY <1>4, <1>5, <2>1, <2>2, <2>3, <2>4 DEF Grades
<1>17. CheckoutRestored'
  BY <1>4 DEF CheckoutRestored
<1> QED BY <1>10, <1>12, <1>13, <1>14, <1>15, <1>16, <1>17 DEF EvolveInv

LEMMA RunTaskHolds ==
  ASSUME EvolveInv, RunTask
  PROVE  EvolveInv'
<1>1. EvolveTypes /\ Isolated /\ Rooted /\ Tidy /\ Compiles /\ Underlies /\ Grades /\ Answered
  BY DEF EvolveInv
<1>2. PICK edits \in SUBSET Editable, failed \in BOOLEAN, commits \in BOOLEAN :
        /\ clone' = IF commits THEN Committed(clone, edits) ELSE Edited(clone, edits)
        /\ replayer' = [replayer EXCEPT !.pc = IF failed THEN "restore" ELSE "diff", !.edits = edits,
                          !.failed = failed, !.committed = commits]
  BY DEF RunTask
<1>3. UNCHANGED <<references, archive, foreign>> /\ replayer.pc = "task"
  BY DEF RunTask
<1>4. /\ DOMAIN replayer' = ReplayerFields /\ replayer'.pc = (IF failed THEN "restore" ELSE "diff")
      /\ replayer'.commit = replayer.commit /\ replayer'.found = replayer.found
      /\ replayer'.definition = replayer.definition /\ replayer'.best = replayer.best /\ replayer'.commits = replayer.commits
      /\ replayer'.left = replayer.left /\ replayer'.edits = edits /\ replayer'.own = replayer.own
      /\ replayer'.fair = replayer.fair /\ replayer'.failed = failed /\ replayer'.committed = commits
  BY <1>1, <1>2 DEF EvolveTypes, ReplayerFields
<1>5. InTask /\ InTask' /\ IsClone(clone) /\ clone.stage = "ready" /\ ~clone.working /\ replayer.edits = {}
      /\ ~replayer.committed /\ replayer'.pc \in {"restore", "diff"}
  BY <1>1, <1>3, <1>4 DEF InTask, EvolveTypes, Grades
<1>6. edits \cap Compiled = {}
  BY EvolveAssumption DEF EvolveAssumption
<1>7. /\ IsClone(clone') /\ clone'.connected = clone.connected /\ clone'.stage = clone.stage /\ clone'.working = clone.working
      /\ ~clone'.detached => clone'.at = clone'.tip
      /\ Owned(clone'.tip) => Owned(clone'.at) /\ Owned(clone.tip)
      /\ \A p \in RepoPaths : clone'.tree[p] = IF p \in edits THEN Mine ELSE clone.tree[p]
      /\ ~commits => clone'.tip = clone.tip /\ clone'.at = clone.at
  <2>1. (~clone.detached => clone.at = clone.tip) /\ (Owned(clone.tip) => Owned(clone.at))
    BY <1>1, <1>5 DEF Rooted
  <2>2. CASE commits
    <3>1. clone' = Committed(clone, edits)
      BY <1>2, <2>2
    <3> QED BY <1>5, <1>6, <2>1, <2>2, <3>1, CommittedIs
  <2>3. CASE ~commits
    <3>1. clone' = Edited(clone, edits)
      BY <1>2, <2>3
    <3>2. /\ IsClone(clone') /\ clone'.tip = clone.tip /\ clone'.at = clone.at /\ clone'.detached = clone.detached
          /\ clone'.connected = clone.connected /\ clone'.stage = clone.stage /\ clone'.working = clone.working
          /\ \A p \in RepoPaths : clone'.tree[p] = IF p \in edits THEN Mine ELSE clone.tree[p]
      BY <1>5, <3>1, EditedIs
    <3> QED BY <2>1, <2>3, <3>2
  <2> QED BY <2>2, <2>3
<1>8. EvolveTypes' /\ Isolated'
  BY <1>1, <1>3, <1>4, <1>5, <1>7 DEF EvolveTypes, Isolated, IsClone
<1>9. Rooted'
  <2>1. ~replayer.found.detached => replayer.found.at = replayer.found.tip
    BY <1>1, <1>5 DEF Rooted
  <2>2. Owned(clone'.tip) => /\ \A c \in replayer.commits \cup replayer.left : Owned(c)
                             /\ Owned(replayer.found.at) /\ Owned(replayer.commit)
    BY <1>1, <1>5, <1>7 DEF Rooted
  <2> QED BY <1>4, <1>7, <2>1, <2>2 DEF Rooted
<1>10. Tidy' /\ Answered'
  BY <1>1, <1>3, <1>4, <1>5, <1>7 DEF Tidy, Answered
<1>11. Compiles'
  <2>1. \A p \in Compiled : p \in RepoPaths /\ p \notin edits
    BY <1>6, RepositoryAssumption DEF RepositoryAssumption
  <2> QED BY <1>1, <1>4, <1>5, <1>7, <2>1 DEF Compiles, Harnessed
<1>12. Underlies'
  <2>1. replayer.own => Bare(replayer.found.at) /\ Bare(replayer.found.tip) /\ Bare(replayer.commit)
    BY <1>1, <1>5 DEF Underlies
  <2>2. ASSUME replayer.own, ~commits
        PROVE  /\ clone'.tip = replayer.found.tip /\ clone'.at \in {replayer.found.at, Front(replayer.commit)}
               /\ \A p \in Excluded \cap RepoPaths :
                    clone'.tree[p] = IF p \in edits THEN Mine ELSE replayer.found.tree[p]
               /\ \A p \in Nested \cap RepoPaths :
                    clone'.tree[p] = IF p \in edits THEN Mine
                                     ELSE IF p \in Litter(replayer.found) THEN replayer.found.tree[p] ELSE Tree(clone'.at)[p]
    <3>1. /\ clone.tip = replayer.found.tip /\ clone.at \in {replayer.found.at, Front(replayer.commit)}
          /\ \A p \in Excluded \cap RepoPaths : clone.tree[p] = replayer.found.tree[p]
          /\ \A p \in Nested \cap RepoPaths :
               clone.tree[p] = IF p \in Litter(replayer.found) THEN replayer.found.tree[p] ELSE Tree(clone.at)[p]
      BY <1>1, <1>5, <2>2 DEF Underlies
    <3> QED BY <1>7, <2>2, <3>1
  <2>3. (replayer.pc = "restore" /\ ~replayer.failed)' => FALSE
    BY <1>4
  <2> QED BY <1>4, <2>1, <2>2, <2>3 DEF Underlies
<1>13. Grades'
  <2>1. replayer.fair => replayer.own
    BY <1>1, <1>5 DEF Grades
  <2>2. ASSUME replayer.fair, ~commits
        PROVE  /\ ParentTracksNone => clone'.at = Front(replayer.commit)
               /\ \A p \in RepoPaths \ Excluded :
                    clone'.tree[p] = IF p \in edits THEN Mine
                                     ELSE IF p \in Litter(replayer.found) THEN replayer.found.tree[p] ELSE Tree(clone'.at)[p]
    <3>1. /\ ParentTracksNone => clone.at = Front(replayer.commit)
          /\ \A p \in RepoPaths \ Excluded :
               clone.tree[p] = IF p \in Litter(replayer.found) THEN replayer.found.tree[p] ELSE Tree(clone.at)[p]
      BY <1>1, <1>5, <2>2 DEF Grades, LeftAt
    <3> QED BY <1>7, <2>2, <3>1
  <2>3. ParentTracksNone' <=> ParentTracksNone
    BY <1>4 DEF ParentTracksNone
  <2>4. \A p : LeftAt(p)' = IF p \in edits THEN Mine ELSE replayer.found.tree[p]
    BY <1>4 DEF LeftAt
  <2>5. \A p \in RepoPaths \ Excluded : replayer.fair /\ ~commits =>
          clone'.tree[p] = IF p \in edits \cup Litter(replayer.found) THEN LeftAt(p)' ELSE Tree(clone'.at)[p]
    BY <2>2, <2>4
  <2>6. replayer'.fair => replayer'.own
    BY <1>4, <2>1
  <2>7. ~(replayer.pc = "restore" /\ ~replayer.failed)' /\ (replayer.pc # "task")'
    BY <1>4
  <2> QED BY <1>4, <1>5, <2>2, <2>3, <2>5, <2>6, <2>7 DEF Grades
<1>14. CheckoutRestored'
  BY <1>5 DEF CheckoutRestored
<1> QED BY <1>8, <1>9, <1>10, <1>11, <1>12, <1>13, <1>14 DEF EvolveInv

LEMMA GradeDiffHolds ==
  ASSUME EvolveInv, GradeDiff
  PROVE  EvolveInv'
<1>1. EvolveTypes /\ Isolated /\ Rooted /\ Tidy /\ Compiles /\ Underlies /\ Grades /\ Answered
  BY DEF EvolveInv
<1>2. /\ UNCHANGED <<references, archive, foreign>> /\ replayer.pc = "diff"
      /\ clone' = [clone EXCEPT !.staged = Staged(clone)]
      /\ \E score : replayer' = [replayer EXCEPT !.pc = "restore", !.changed = Staged(clone), !.score = score]
  BY DEF GradeDiff
<1>3. /\ DOMAIN replayer' = ReplayerFields /\ replayer'.pc = "restore"
      /\ replayer'.commit = replayer.commit /\ replayer'.found = replayer.found
      /\ replayer'.definition = replayer.definition /\ replayer'.best = replayer.best /\ replayer'.commits = replayer.commits
      /\ replayer'.left = replayer.left /\ replayer'.edits = replayer.edits /\ replayer'.own = replayer.own
      /\ replayer'.fair = replayer.fair /\ replayer'.committed = replayer.committed /\ replayer'.failed = replayer.failed
      /\ replayer'.changed = Staged(clone)
  BY <1>1, <1>2 DEF EvolveTypes, ReplayerFields
<1>4. InTask /\ InTask' /\ IsClone(clone) /\ clone.stage = "ready" /\ ~clone.working
  BY <1>1, <1>2, <1>3 DEF InTask, EvolveTypes
<1>5. /\ SameTree /\ DOMAIN clone' = CloneFields /\ clone'.staged = Staged(clone)
      /\ clone'.connected = clone.connected /\ clone'.stage = clone.stage /\ clone'.working = clone.working
  BY <1>2, <1>4 DEF SameTree, IsClone, CloneFields
<1>6. IsClone(clone')
  BY <1>4, <1>5 DEF SameTree, IsClone, Staged
<1>7. EvolveTypes' /\ Isolated'
  BY <1>1, <1>2, <1>3, <1>4, <1>5, <1>6 DEF EvolveTypes, Isolated
<1>8. Rooted' /\ Tidy'
  BY <1>1, <1>2, <1>3, <1>4, <1>5 DEF Rooted, Tidy, SameTree
<1>9. Compiles' /\ Answered'
  BY <1>1, <1>2, <1>3, <1>4, <1>5 DEF Compiles, Answered, Harnessed, SameTree
<1>10. Underlies'
  <2>1. Litter(clone') \subseteq Staged(clone)
    BY <1>5, EvolveAssumption DEF Litter, Staged, SameTree, EvolveAssumption
  <2> QED BY <1>1, <1>3, <1>4, <1>5, <2>1 DEF Underlies, SameTree
<1>11. Grades'
  <2>1. replayer.fair => replayer.own
    BY <1>1, <1>4 DEF Grades
  <2>2. ASSUME replayer.fair, ~replayer.committed
        PROVE  /\ ParentTracksNone => clone.at = Front(replayer.commit)
               /\ \A p \in RepoPaths \ Excluded :
                    clone.tree[p] = IF p \in replayer.edits \cup Litter(replayer.found) THEN LeftAt(p) ELSE Tree(clone.at)[p]
    BY <1>1, <1>4, <2>2 DEF Grades
  <2>3. ASSUME replayer.fair, ~replayer.committed
        PROVE  Staged(clone) = Changes
    <3>1. replayer.edits \subseteq RepoPaths /\ Litter(replayer.found) \subseteq RepoPaths
      BY <1>1, RepositoryAssumption DEF EvolveTypes, RepositoryAssumption, Litter
    <3> QED BY <2>2, <2>3, <3>1 DEF Staged, Changes
  <2>4. /\ ParentTracksNone' <=> ParentTracksNone
        /\ Changes' = Changes /\ \A p : LeftAt(p)' = LeftAt(p)
    BY <1>3, <1>5 DEF ParentTracksNone, Changes, LeftAt, SameTree
  <2>5. ASSUME replayer.fair, ~replayer.committed
        PROVE  /\ ParentTracksNone' => clone'.at = Front(replayer'.commit)
               /\ \A p \in RepoPaths \ Excluded :
                    clone'.tree[p] = IF p \in replayer'.edits \cup Litter(replayer'.found) THEN LeftAt(p)' ELSE Tree(clone'.at)[p]
    BY <1>3, <1>5, <2>2, <2>4, <2>5 DEF SameTree
  <2> QED BY <1>2, <1>3, <1>4, <2>1, <2>3, <2>4, <2>5 DEF Grades
<1>12. CheckoutRestored'
  BY <1>3 DEF CheckoutRestored
<1> QED BY <1>7, <1>8, <1>9, <1>10, <1>11, <1>12 DEF EvolveInv

LEMMA RestoreHolds ==
  ASSUME EvolveInv, Restore
  PROVE  EvolveInv'
<1>1. EvolveTypes /\ Isolated /\ Rooted /\ Tidy /\ Compiles /\ Underlies /\ Grades /\ Answered
  BY DEF EvolveInv
<1>2. /\ replayer.pc = "restore" /\ clone' = PutBack(clone, replayer.found)
      /\ replayer' = [replayer EXCEPT !.pc = "replay", !.commit = <<>>, !.total = @ + replayer.score]
      /\ ~foreign' /\ UNCHANGED <<references, archive>>
  BY DEF Restore
<1>3. /\ DOMAIN replayer' = ReplayerFields /\ replayer'.pc = "replay" /\ replayer'.found = replayer.found
      /\ replayer'.definition = replayer.definition /\ replayer'.best = replayer.best /\ replayer'.commits = replayer.commits
      /\ replayer'.left = replayer.left /\ replayer'.edits = replayer.edits /\ replayer'.own = replayer.own
      /\ replayer'.committed = replayer.committed /\ replayer'.failed = replayer.failed
  BY <1>1, <1>2 DEF EvolveTypes, ReplayerFields
<1>4. InTask /\ ~InTask' /\ IsClone(clone) /\ IsClone(replayer.found) /\ replayer.commit \in LongCommits
      /\ clone.stage = "ready" /\ ~clone.working
  BY <1>1, <1>2, <1>3 DEF InTask, EvolveTypes
<1>5. PICK to : to = IF replayer.found.detached THEN replayer.found.at ELSE clone.tip
  OBVIOUS
<1>6. /\ IsClone(clone') /\ clone'.tip = clone.tip /\ clone'.connected = clone.connected /\ clone'.stage = clone.stage
      /\ clone'.working = clone.working /\ CleanTree(clone')
      /\ (clone'.at = clone.at /\ clone'.detached = clone.detached) \/ (clone'.at = to /\ clone'.detached = replayer.found.detached)
      /\ \A p \in RepoPaths \cap Excluded : Tree(clone.at)[p] = NoFile /\ Tree(to)[p] = NoFile => clone'.tree[p] = clone.tree[p]
      /\ \A p \in Litter(clone') : clone'.tree[p] = clone.tree[p] /\ p \in Litter(clone) \ clone.staged
      /\ Bare(clone.at) /\ Bare(to) /\ (\A p \in Litter(clone') : Tree(to)[p] = NoFile) =>
           /\ clone'.at = to /\ clone'.detached = replayer.found.detached
           /\ \A p \in RepoPaths : clone'.tree[p] = IF p \in Excluded \cup Litter(clone') THEN clone.tree[p] ELSE Tree(to)[p]
  BY <1>2, <1>4, <1>5, PutBackIs
<1>7. EvolveTypes' /\ Isolated'
  BY <1>1, <1>2, <1>3, <1>4, <1>6 DEF EvolveTypes, Isolated, IsClone
<1>8. /\ ~clone.detached => clone.at = clone.tip
      /\ ~replayer.found.detached => replayer.found.at = replayer.found.tip
      /\ Owned(clone.tip) => /\ Owned(clone.at) /\ Owned(replayer.found.at)
                             /\ \A c \in replayer.commits \cup replayer.left : Owned(c)
  BY <1>1, <1>4 DEF Rooted
<1>9. Owned(clone.tip) => Owned(to)
  BY <1>5, <1>8
<1>10. Rooted'
  <2>1. ~clone'.detached => clone'.at = clone'.tip
    BY <1>5, <1>6, <1>8
  <2>2. Owned(clone'.tip) => Owned(clone'.at)
    BY <1>6, <1>8, <1>9
  <2> QED BY <1>3, <1>4, <1>6, <1>8, <2>1, <2>2 DEF Rooted
<1>11. Tidy' /\ Answered'
  BY <1>1, <1>2, <1>3, <1>4, <1>6 DEF Tidy, Answered
<1>12. Compiles'
  <2> SUFFICES ASSUME Owned(clone.tip) PROVE Harnessed(clone', replayer.definition)
    BY <1>3, <1>6 DEF Compiles
  <2>1. clone.at \in Commits /\ to \in Commits /\ Owned(clone.at) /\ Owned(to)
    BY <1>4, <1>5, <1>8, <1>9 DEF IsClone
  <2>2. \A p \in Compiled : p \in RepoPaths \cap Excluded /\ Tree(clone.at)[p] = NoFile /\ Tree(to)[p] = NoFile
    BY <2>1, BareTrees, EvolveAssumption, RepositoryAssumption DEF EvolveAssumption, RepositoryAssumption
  <2> QED BY <1>1, <1>4, <1>6, <2>2 DEF Compiles, Harnessed
<1>13. Underlies' /\ Grades'
  <2>1. Underlies'
    BY <1>3, <1>4 DEF Underlies
  <2>2. Grades'
    BY <1>3, <1>4 DEF Grades
  <2> QED BY <2>1, <2>2
<1>14. CheckoutRestored'
  <2> DEFINE litter == Litter(clone')
             found == replayer.found
             Had(p) == IF p \in replayer.edits THEN Mine ELSE found.tree[p]
  <2> SUFFICES ASSUME replayer.own, ~replayer.committed
               PROVE  /\ clone'.tip = found.tip
                      /\ litter # {} => replayer.failed /\ litter \subseteq replayer.edits \cup Litter(found)
                      /\ \A p \in litter : Tree(clone'.at)[p] = NoFile
                      /\ (\A p \in litter : Tree(found.at)[p] = NoFile) =>
                           /\ clone'.at = found.at /\ clone'.detached = found.detached
                           /\ \A p \in RepoPaths : clone'.tree[p] = IF p \in Excluded \cup litter THEN Had(p) ELSE Tree(found.at)[p]
    BY <1>3 DEF CheckoutRestored
  <2>1. /\ Bare(found.at) /\ Bare(replayer.commit)
        /\ clone.tip = found.tip /\ clone.at \in {found.at, Front(replayer.commit)}
        /\ \A p \in Excluded \cap RepoPaths : clone.tree[p] = Had(p)
        /\ \A p \in Nested \cap RepoPaths :
             clone.tree[p] = IF p \in replayer.edits THEN Mine ELSE IF p \in Litter(found) THEN found.tree[p] ELSE Tree(clone.at)[p]
        /\ ~replayer.failed => Litter(clone) \subseteq clone.staged
    BY <1>1, <1>2, <1>4 DEF Underlies
  <2>2. to = found.at
    BY <1>5, <1>8, <2>1
  <2>3. Bare(clone.at) /\ Bare(to)
    BY <1>4, <2>1, <2>2, FrontCommits
  <2>4. \A p \in litter : p \in RepoPaths /\ p \in replayer.edits \cup Litter(found) /\ clone'.tree[p] = Had(p)
    <3>1. \A p \in Litter(clone) : p \in Nested \cap RepoPaths /\ clone.tree[p] # Tree(clone.at)[p]
      BY DEF Litter
    <3> QED BY <1>6, <2>1, <3>1
  <2>5. litter # {} => replayer.failed
    BY <1>6, <2>1
  <2>6. \A p \in litter : Tree(clone'.at)[p] = NoFile
    BY <1>6, EvolveAssumption DEF CleanTree, Litter, EvolveAssumption
  <2>7. ASSUME \A p \in litter : Tree(found.at)[p] = NoFile
        PROVE  /\ clone'.at = found.at /\ clone'.detached = found.detached
               /\ \A p \in RepoPaths : clone'.tree[p] = IF p \in Excluded \cup litter THEN Had(p) ELSE Tree(found.at)[p]
    <3> HIDE DEF Had
    <3>1. /\ clone'.at = to /\ clone'.detached = found.detached
          /\ \A p \in RepoPaths : clone'.tree[p] = IF p \in Excluded \cup litter THEN clone.tree[p] ELSE Tree(to)[p]
      BY <1>6, <2>2, <2>3, <2>7
    <3> QED BY <2>1, <2>2, <2>4, <3>1
  <2> QED BY <1>6, <2>1, <2>4, <2>5, <2>6, <2>7
<1> QED BY <1>7, <1>10, <1>11, <1>12, <1>13, <1>14 DEF EvolveInv

LEMMA EvolveStep ==
  ASSUME EvolveInv, [EvolveNext]_evolution
  PROVE  EvolveInv'
<1>1. CASE EvolveNext
  BY <1>1, SetupHolds, SynthesizeHolds, StartReplaysHolds, StartTeacherHolds, TryHolds, EvaluatedHolds, PromoteHolds, DiesHolds,
     RefuseHolds, BeginReplayHolds, RunTaskHolds, GradeDiffHolds, RestoreHolds, TeachHolds, ReferencesHold, StudyHolds
     DEF EvolveNext
<1>2. CASE UNCHANGED evolution
  <2>1. UNCHANGED <<clone, replayer, references, archive, foreign>>
    BY <1>2 DEF evolution
  <2>2. EvolveTypes' /\ Isolated' /\ Rooted'
    BY <2>1 DEF EvolveInv, EvolveTypes, Isolated, Rooted, InTask
  <2>3. Tidy' /\ Compiles' /\ Underlies'
    BY <2>1 DEF EvolveInv, Tidy, Compiles, Underlies, InTask
  <2>4. Grades'
    <3>1. (ParentTracksNone' <=> ParentTracksNone) /\ Changes' = Changes /\ \A p : LeftAt(p)' = LeftAt(p)
      BY <2>1 DEF ParentTracksNone, Changes, LeftAt
    <3> QED BY <2>1, <3>1 DEF EvolveInv, Grades, InTask
  <2>5. CheckoutRestored' /\ Answered'
    BY <2>1 DEF EvolveInv, CheckoutRestored, Answered
  <2> QED BY <2>2, <2>3, <2>4, <2>5 DEF EvolveInv
<1> QED BY <1>1, <1>2

(* However the commands, scripts, agents' edits and commits, refusals and   *)
(* deaths interleave: a replay leaves the checkout as it found it but for   *)
(* the nested new files of a failed run, a fair one is graded for exactly   *)
(* its agent's edits and such files, on the commit's parent unless that     *)
(* tracks one of them; what reads as the teacher's answers is the teacher's *)
(* and no replay runs in a tree with a way back (evolve/replay.py,          *)
(* reference.py, isolate.py).                                               *)
THEOREM ReplaysStayApart == EvolveSpec => []ReplaysApart
<1>1. EvolveInit => EvolveInv
  BY EvolveStarts
<1>2. EvolveInv /\ [EvolveNext]_evolution => EvolveInv'
  BY EvolveStep
<1>3. EvolveInv => ReplaysApart
  BY ReplaysSound
<1> QED BY <1>1, <1>2, <1>3, PTL DEF EvolveSpec
-----------------------------------------------------------------------------
(* TestHarness.                                                            *)
(* What one after the other makes of lists is a list.                      *)
LEMMA Flattens == \A T : \A seqs \in Seq(Seq(T)) : FlattenSeq(seqs) \in Seq(T)
<1> SUFFICES ASSUME NEW T, NEW seqs \in Seq(Seq(T)) PROVE FlattenSeq(seqs) \in Seq(T)
  OBVIOUS
<1>1. PICK N \in Nat : N = Len(seqs)
  OBVIOUS
<1>2. \A i \in 1..N : seqs[i] \in Seq(T)
  BY <1>1
<1> DEFINE Step(f, i) == IF i = 1 THEN seqs[i] ELSE f[i - 1] \o seqs[i]
           Good(f, n) == f = [i \in 1..n |-> IF i = 1 THEN seqs[i] ELSE f[i - 1] \o seqs[i]]
           Bad == {n \in Nat : n <= N /\ ~\E f : Good(f, n) /\ \A i \in 1..n : f[i] \in Seq(T)}
<1>3. Bad = {}
  <2> SUFFICES ASSUME Bad # {} PROVE FALSE
    OBVIOUS
  <2>1. Min(Bad) \in Bad /\ \A n \in Bad : Min(Bad) <= n
    <3>1. Bad \in SUBSET Nat
      OBVIOUS
    <3> HIDE DEF Bad
    <3> QED BY <3>1, LeastIn
  <2>2. PICK b : b = Min(Bad)
    OBVIOUS
  <2>3. b \in Nat /\ b <= N /\ ~\E f : Good(f, b) /\ \A i \in 1..b : f[i] \in Seq(T)
    BY <2>1, <2>2
  <2>4. CASE b = 0
    <3>1. PICK f : f = [i \in 1..0 |-> <<>>]
      OBVIOUS
    <3>2. DOMAIN f = {} /\ f = [i \in 1..0 |-> IF i = 1 THEN seqs[i] ELSE f[i - 1] \o seqs[i]]
      BY <3>1
    <3>3. Good(f, b) /\ \A i \in 1..b : f[i] \in Seq(T)
      BY <2>4, <3>2
    <3> QED BY <2>3, <3>3
  <2>5. CASE b # 0
    <3>1. b - 1 \in Nat /\ b - 1 <= N /\ ~(b <= b - 1)
      BY <2>3, <2>5
    <3>2. PICK g : Good(g, b - 1) /\ \A i \in 1..b - 1 : g[i] \in Seq(T)
      BY <2>1, <2>2, <3>1
    <3> DEFINE f == [i \in 1..b |-> IF i = b THEN Step(g, b) ELSE g[i]]
    <3>3. ASSUME NEW i \in 1..b
          PROVE  f[i] = (IF i = 1 THEN seqs[i] ELSE f[i - 1] \o seqs[i]) /\ f[i] \in Seq(T)
      <4>1. i = 1 \/ (i - 1 \in 1..b /\ i - 1 # b /\ i - 1 \in 1..b - 1)
        BY <2>3
      <4>2. i \in 1..N
        BY <2>3
      <4>3. CASE i = b
        <5>1. f[i] = Step(g, b)
          BY <4>3
        <5>2. i # 1 => f[i - 1] = g[i - 1] /\ g[i - 1] \in Seq(T)
          BY <3>2, <4>1, <4>3
        <5>3. f[i] = IF i = 1 THEN seqs[i] ELSE f[i - 1] \o seqs[i]
          BY <4>3, <5>1, <5>2
        <5> HIDE DEF f
        <5> QED BY <1>2, <4>2, <5>2, <5>3
      <4>4. CASE i # b
        <5>1. i \in 1..b - 1
          BY <2>3, <4>4
        <5>2. f[i] = g[i] /\ (i # 1 => f[i - 1] = g[i - 1])
          BY <4>1, <4>4
        <5>3. g[i] = IF i = 1 THEN seqs[i] ELSE g[i - 1] \o seqs[i]
          BY <3>2, <5>1
        <5> HIDE DEF f
        <5> QED BY <3>2, <5>1, <5>2, <5>3
      <4> QED BY <4>3, <4>4
    <3>4. DOMAIN f = 1..b /\ f = [i \in 1..b |-> f[i]]
      OBVIOUS
    <3> HIDE DEF f
    <3>5. Good(f, b) /\ \A i \in 1..b : f[i] \in Seq(T)
      BY <3>3, <3>4
    <3> QED BY <2>3, <3>5
  <2> QED BY <2>4, <2>5
<1>4. CASE N = 0
  <2>1. FlattenSeq(seqs) = seqs
    BY <1>1, <1>4 DEF FlattenSeq
  <2>2. seqs = <<>>
    BY <1>1, <1>4, EmptySeq
  <2>3. <<>> \in Seq(T)
    OBVIOUS
  <2> QED BY <2>1, <2>2, <2>3
<1>5. CASE N # 0
  <2>1. \E f : Good(f, N) /\ \A i \in 1..N : f[i] \in Seq(T)
    <3> HIDE DEF Bad, Good
    <3>1. N \notin Bad
      BY <1>3
    <3>2. N <= N
      BY <1>1
    <3> QED BY <1>1, <3>1, <3>2 DEF Bad
  <2>2. PICK f : f = CHOOSE h : Good(h, N)
    OBVIOUS
  <2>3. Good(f, N)
    BY <2>1, <2>2
  <2>4. FlattenSeq(seqs) = f[N]
    BY <1>1, <1>5, <2>2 DEF FlattenSeq
  <2>5. \A h : Good(h, N) => \A n \in 1..N : h[n] \in Seq(T)
    <3> SUFFICES ASSUME NEW h, Good(h, N) PROVE \A n \in 1..N : h[n] \in Seq(T)
      OBVIOUS
    <3> DEFINE Off == {n \in Nat : n \in 1..N /\ h[n] \notin Seq(T)}
    <3>1. Off = {}
      <4> SUFFICES ASSUME Off # {} PROVE FALSE
        OBVIOUS
      <4>1. Min(Off) \in Off /\ \A n \in Off : Min(Off) <= n
        <5>1. Off \in SUBSET Nat
          OBVIOUS
        <5> HIDE DEF Off
        <5> QED BY <5>1, LeastIn
      <4>2. PICK m : m = Min(Off)
        OBVIOUS
      <4>3. m \in 1..N /\ h[m] \notin Seq(T)
        BY <4>1, <4>2
      <4>4. m # 1 => m - 1 \in 1..N /\ h[m - 1] \in Seq(T)
        <5> SUFFICES ASSUME m # 1 PROVE m - 1 \in 1..N /\ h[m - 1] \in Seq(T)
          OBVIOUS
        <5>1. m - 1 \in 1..N /\ m - 1 \in Nat /\ ~(m <= m - 1)
          BY <4>3
        <5> QED BY <4>1, <4>2, <5>1
      <4>5. h[m] = IF m = 1 THEN seqs[m] ELSE h[m - 1] \o seqs[m]
        BY <4>3
      <4> HIDE DEF Off, Good
      <4>6. seqs[m] \in Seq(T)
        BY <1>2, <4>3
      <4>7. m # 1 => h[m - 1] \o seqs[m] \in Seq(T)
        BY <4>4, <4>6, ConcatProperties
      <4> QED BY <4>3, <4>5, <4>6, <4>7
    <3> SUFFICES ASSUME NEW n \in 1..N PROVE h[n] \in Seq(T)
      OBVIOUS
    <3> HIDE DEF Off, Good
    <3>2. n \notin Off
      BY <3>1
    <3>3. n \in Nat
      BY <1>1
    <3> QED BY <3>2, <3>3 DEF Off
  <2>6. N \in 1..N
    BY <1>5
  <2> QED BY <2>3, <2>4, <2>5, <2>6
<1> QED BY <1>4, <1>5

(* A test is of an agent or of a tool, and of one of them.                 *)
CapabilityTests == UNION {{Capability(a, i) : i \in DOMAIN a.definition.caps} : a \in AgentsIn}

ToolTests == UNION {{OfTool(t, i) : i \in DOMAIN t.tests} : t \in ToolsIn}

Tests == CapabilityTests \cup ToolTests

LEMMA ListIs == \A s : IsList(s) =>
  Len(s) \in Nat /\ DOMAIN s = 1..Len(s) /\ IsFiniteSet(DOMAIN s) /\ DOMAIN s \subseteq Int /\ \A i \in DOMAIN s : s[i] \in ToSet(s)
<1> SUFFICES ASSUME NEW s, IsList(s)
             PROVE  /\ Len(s) \in Nat /\ DOMAIN s = 1..Len(s) /\ IsFiniteSet(DOMAIN s) /\ DOMAIN s \subseteq Int
                    /\ \A i \in DOMAIN s : s[i] \in ToSet(s)
  OBVIOUS
<1>1. PICK N : N = Len(s)
  OBVIOUS
<1>2. N \in Nat /\ DOMAIN s = 1..N
  BY <1>1 DEF IsList
<1>3. IsFiniteSet(1..N)
  <2>1. 1 \in Int /\ N \in Int
    BY <1>2
  <2> QED BY <2>1, FS_Interval, Zenon
<1> QED BY <1>1, <1>2, <1>3 DEF ToSet

LEMMA ListOf == \A T : \A s \in Seq(T) :
  Len(s) \in Nat /\ DOMAIN s = 1..Len(s) /\ IsFiniteSet(DOMAIN s) /\ DOMAIN s \subseteq Int /\ \A i \in DOMAIN s : s[i] \in T
<1> SUFFICES ASSUME NEW T, NEW s \in Seq(T)
             PROVE  /\ Len(s) \in Nat /\ DOMAIN s = 1..Len(s) /\ IsFiniteSet(DOMAIN s) /\ DOMAIN s \subseteq Int
                    /\ \A i \in DOMAIN s : s[i] \in T
  OBVIOUS
<1>1. PICK N : N = Len(s)
  OBVIOUS
<1>2. N \in Nat /\ DOMAIN s = 1..N /\ \A i \in 1..N : s[i] \in T
  BY <1>1
<1>3. IsFiniteSet(1..N)
  <2>1. 1 \in Int /\ N \in Int
    BY <1>2
  <2> QED BY <2>1, FS_Interval, Zenon
<1> QED BY <1>1, <1>2, <1>3

(* A function over the places of a list is a list.                         *)
LEMMA MapIs == \A T : \A N \in Nat : \A f : f \in [1..N -> T] => f \in Seq(T) /\ Len(f) = N
  OBVIOUS

LEMMA GatheredAre == \A a \in AgentsIn :
  /\ GatherTools(a) \in Seq(ToolsIn)
<1> SUFFICES ASSUME NEW a \in AgentsIn PROVE GatherTools(a) \in Seq(ToolsIn)
  OBVIOUS
<1>1. PICK all : all = a.definition.extras \o a.definition.skillTools
  OBVIOUS
<1>2. PICK T : T = ToSet(a.definition.extras) \cup ToSet(a.definition.skillTools)
  OBVIOUS
<1>3. a.definition.extras \in Seq(T) /\ a.definition.skillTools \in Seq(T)
  <2>1. a.definition.extras \in Seq(ToSet(a.definition.extras)) /\ a.definition.skillTools \in Seq(ToSet(a.definition.skillTools))
    BY HarnessAssumption DEF IsList, Defined
  <2> QED BY <1>2, <2>1
<1>4. all \in Seq(T)
  BY <1>1, <1>3
<1>5. IsFiniteSet(DOMAIN all) /\ DOMAIN all \subseteq Int
  BY <1>4, ListOf
<1>6. PICK I : I = {i \in DOMAIN all : \A j \in 1..i - 1 : all[j].name # all[i].name}
  OBVIOUS
<1>7. I \subseteq DOMAIN all /\ IsFiniteSet(I) /\ I \subseteq Int
  <2>1. I \subseteq DOMAIN all
    BY <1>6
  <2> QED BY <1>5, <2>1, FS_Subset
<1>8. \A i \in I : all[i] \in ToolsIn
  <2>1. \A i \in I : all[i] \in ToSet(all)
    BY <1>7 DEF ToSet
  <2>2. ToSet(all) \subseteq ToolsIn
    BY <1>1 DEF ToolsIn, Defined
  <2> QED BY <2>1, <2>2
<1>9. GatherTools(a) = Sublist(all, I)
  BY <1>1, <1>6 DEF GatherTools
<1> QED BY <1>7, <1>8, <1>9, SublistIsList

LEMMA DistinctAre == \A s \in Seq(ToolTests) : Distinct(s) \in Seq(ToolTests)
<1> SUFFICES ASSUME NEW s \in Seq(ToolTests) PROVE Distinct(s) \in Seq(ToolTests)
  OBVIOUS
<1>1. PICK I : I = {i \in DOMAIN s : \A j \in 1..i - 1 : ~(s[j].target.name = s[i].target.name /\ s[j].name = s[i].name)}
  OBVIOUS
<1>2. I \subseteq DOMAIN s /\ IsFiniteSet(I) /\ I \subseteq Int
  <2>1. I \subseteq DOMAIN s
    BY <1>1
  <2>2. IsFiniteSet(DOMAIN s) /\ DOMAIN s \subseteq Int
    BY ListOf
  <2> QED BY <2>1, <2>2, FS_Subset
<1>3. \A i \in I : s[i] \in ToolTests
  BY <1>2, ListOf
<1>4. Distinct(s) = Sublist(s, I)
  BY <1>1 DEF Distinct
<1> QED BY <1>2, <1>3, <1>4, SublistIsList

LEMMA DiscoveredAre == \A r \in DOMAIN Revisions :
  Len(Discovered[r].agent) \in Nat /\ Candidates[r] \in Seq(Tests)
<1> SUFFICES ASSUME NEW r \in DOMAIN Revisions
             PROVE  Len(Discovered[r].agent) \in Nat /\ Candidates[r] \in Seq(Tests)
  OBVIOUS
<1>1. PICK tree : tree = Revisions[r].tree
  OBVIOUS
<1>2. PICK N : N = Len(tree)
  OBVIOUS
<1>3. N \in Nat /\ DOMAIN tree = 1..N /\ \A i \in 1..N : tree[i] \in AgentsIn
  <2>1. IsList(tree)
    BY <1>1, HarnessAssumption
  <2>2. \A i \in DOMAIN tree : tree[i] \in AgentsIn
    BY <1>1 DEF AgentsIn, ToSet
  <2> QED BY <1>2, <2>1, <2>2, ListIs
<1>4. Discovered[r] = Discover(tree)
  BY <1>1 DEF Discovered
<1>5. FlattenSeq([i \in DOMAIN tree |-> [k \in DOMAIN tree[i].definition.caps |-> Capability(tree[i], k)]]) \in Seq(Tests)
  <2> DEFINE f == [i \in DOMAIN tree |-> [k \in DOMAIN tree[i].definition.caps |-> Capability(tree[i], k)]]
  <2>1. ASSUME NEW i \in 1..N PROVE f[i] \in Seq(Tests)
    <3>1. IsList(tree[i].definition.caps) /\ tree[i] \in AgentsIn
      BY <1>3, HarnessAssumption DEF Defined
    <3>2. Len(tree[i].definition.caps) \in Nat /\ DOMAIN tree[i].definition.caps = 1..Len(tree[i].definition.caps)
      BY <3>1, ListIs
    <3>3. f[i] = [k \in 1..Len(tree[i].definition.caps) |-> Capability(tree[i], k)]
      BY <1>3, <3>2
    <3>4. \A k \in 1..Len(tree[i].definition.caps) : Capability(tree[i], k) \in Tests
      BY <3>1, <3>2 DEF Tests, CapabilityTests
    <3> QED BY <3>2, <3>3, <3>4
  <2>2. f \in [1..N -> Seq(Tests)]
    BY <1>3, <2>1
  <2> HIDE DEF f
  <2>3. f \in Seq(Seq(Tests))
    BY <1>3, <2>2
  <2>4. FlattenSeq(f) \in Seq(Tests)
    BY <2>3, Flattens
  <2> QED BY <2>4 DEF f
<1>6. FlattenSeq([i \in DOMAIN tree |-> tree[i].definition.agentTests]) \in Seq(UNION {ToSet(a.definition.agentTests) : a \in AgentsIn})
  <2> DEFINE f == [i \in DOMAIN tree |-> tree[i].definition.agentTests]
             T == UNION {ToSet(a.definition.agentTests) : a \in AgentsIn}
  <2>1. ASSUME NEW i \in 1..N PROVE f[i] \in Seq(T)
    <3>1. IsList(tree[i].definition.agentTests) /\ tree[i] \in AgentsIn
      BY <1>3, HarnessAssumption DEF Defined
    <3>2. f[i] = tree[i].definition.agentTests /\ ToSet(tree[i].definition.agentTests) \subseteq T
      BY <1>3, <3>1
    <3>3. f[i] \in Seq(ToSet(tree[i].definition.agentTests))
      BY <3>1, <3>2 DEF IsList
    <3> HIDE DEF f, T
    <3> QED BY <3>2, <3>3
  <2>2. f \in [1..N -> Seq(T)]
    BY <1>3, <2>1
  <2> HIDE DEF f
  <2>3. f \in Seq(Seq(T))
    BY <1>3, <2>2
  <2>4. FlattenSeq(f) \in Seq(T)
    BY <2>3, Flattens
  <2> QED BY <2>4 DEF f
<1>7. PICK testsOf : testsOf = [t \in ToolsIn |-> [i \in DOMAIN t.tests |-> OfTool(t, i)]]
  OBVIOUS
<1>8. \A t \in ToolsIn : testsOf[t] \in Seq(ToolTests)
  <2> SUFFICES ASSUME NEW t \in ToolsIn PROVE testsOf[t] \in Seq(ToolTests)
    OBVIOUS
  <2>1. Len(t.tests) \in Nat /\ DOMAIN t.tests = 1..Len(t.tests)
    BY HarnessAssumption, ListIs
  <2>2. testsOf[t] = [i \in 1..Len(t.tests) |-> OfTool(t, i)]
    BY <1>7, <2>1
  <2>3. \A i \in 1..Len(t.tests) : OfTool(t, i) \in ToolTests
    BY <2>1 DEF ToolTests
  <2> QED BY <2>1, <2>2, <2>3
<1>9. PICK toolsOf : toolsOf = [a \in AgentsIn |-> FlattenSeq([i \in DOMAIN GatherTools(a) |-> testsOf[GatherTools(a)[i]]])]
  OBVIOUS
<1>10. \A a \in AgentsIn :
         /\ toolsOf[a] = FlattenSeq([i \in DOMAIN GatherTools(a) |-> [k \in DOMAIN GatherTools(a)[i].tests |-> OfTool(GatherTools(a)[i], k)]])
         /\ toolsOf[a] \in Seq(ToolTests)
  <2> SUFFICES ASSUME NEW a \in AgentsIn
               PROVE  /\ toolsOf[a] = FlattenSeq([i \in DOMAIN GatherTools(a) |-> [k \in DOMAIN GatherTools(a)[i].tests |-> OfTool(GatherTools(a)[i], k)]])
                      /\ toolsOf[a] \in Seq(ToolTests)
    OBVIOUS
  <2>1. PICK all : all = GatherTools(a)
    OBVIOUS
  <2>2. all \in Seq(ToolsIn)
    BY <2>1, GatheredAre
  <2>3. PICK M : M = Len(all)
    OBVIOUS
  <2>4. M \in Nat /\ DOMAIN all = 1..M /\ \A i \in 1..M : all[i] \in ToolsIn
    BY <2>2, <2>3
  <2>5. PICK f : f = [i \in DOMAIN all |-> testsOf[all[i]]]
    OBVIOUS
  <2>6. f \in [1..M -> Seq(ToolTests)]
    BY <1>8, <2>4, <2>5
  <2>7. f \in Seq(Seq(ToolTests))
    BY <2>4, <2>6
  <2>8. f = [i \in DOMAIN all |-> [k \in DOMAIN all[i].tests |-> OfTool(all[i], k)]]
    BY <1>7, <2>4, <2>5
  <2>9. toolsOf[a] = FlattenSeq(f)
    BY <1>9, <2>1, <2>5
  <2>10. FlattenSeq(f) \in Seq(ToolTests)
    BY <2>7, Flattens
  <2> QED BY <2>1, <2>8, <2>9, <2>10
<1>11. PICK f : f = [i \in DOMAIN tree |-> toolsOf[tree[i]]]
  OBVIOUS
<1>12. f \in Seq(Seq(ToolTests))
  <2>1. f \in [1..N -> Seq(ToolTests)]
    BY <1>3, <1>10, <1>11
  <2> QED BY <1>3, <2>1
<1>13. f = [i \in DOMAIN tree |-> FlattenSeq([j \in DOMAIN GatherTools(tree[i]) |-> [k \in DOMAIN GatherTools(tree[i])[j].tests |-> OfTool(GatherTools(tree[i])[j], k)]])]
  BY <1>3, <1>10, <1>11
<1>14. Distinct(FlattenSeq(f)) \in Seq(Tests)
  <2>1. Distinct(FlattenSeq(f)) \in Seq(ToolTests)
    BY <1>12, Flattens, DistinctAre
  <2>2. ToolTests \subseteq Tests
    BY DEF Tests
  <2> QED BY <2>1, <2>2
<1>15. /\ Discover(tree).capability = FlattenSeq([i \in DOMAIN tree |-> [k \in DOMAIN tree[i].definition.caps |-> Capability(tree[i], k)]])
       /\ Discover(tree).tool = Distinct(FlattenSeq(f))
       /\ Discover(tree).agent = FlattenSeq([i \in DOMAIN tree |-> tree[i].definition.agentTests])
  BY <1>13 DEF Discover
<1>16. Candidates[r] = Discovered[r].capability \o Discovered[r].tool
  BY DEF Candidates
<1> QED BY <1>4, <1>5, <1>6, <1>14, <1>15, <1>16

(* A reference names a test.                                               *)
Refs == {ref \in (DOMAIN Revisions) \X Nat \X {o.variant : o \in Options} : ref[2] \in DOMAIN Candidates[ref[1]]}

LEMMA RefIs == \A ref \in Refs :
  ref[1] \in DOMAIN Revisions /\ ref[2] \in DOMAIN Candidates[ref[1]] /\ Candidates[ref[1]][ref[2]] \in Tests
<1> SUFFICES ASSUME NEW ref \in Refs
             PROVE  ref[1] \in DOMAIN Revisions /\ ref[2] \in DOMAIN Candidates[ref[1]] /\ Candidates[ref[1]][ref[2]] \in Tests
  OBVIOUS
<1>1. ref[1] \in DOMAIN Revisions /\ ref[2] \in DOMAIN Candidates[ref[1]]
  BY DEF Refs
<1>2. Candidates[ref[1]] \in Seq(Tests)
  BY <1>1, DiscoveredAre
<1> QED BY <1>1, <1>2, ListOf

(* Two tests of one definition have names of their own, and an agent is no  *)
(* tool.                                                                   *)
LEMMA NamedOnce == \A c, d \in Tests : c.name = d.name /\ State(c) = State(d) => c.kind = d.kind /\ c.test = d.test
<1> SUFFICES ASSUME NEW c \in Tests, NEW d \in Tests, c.name = d.name, State(c) = State(d)
             PROVE  c.kind = d.kind /\ c.test = d.test
  OBVIOUS
<1>1. ASSUME NEW a \in AgentsIn, NEW i \in DOMAIN a.definition.caps, c = Capability(a, i),
             NEW b \in AgentsIn, NEW j \in DOMAIN b.definition.caps, d = Capability(b, j)
      PROVE  c.kind = d.kind /\ c.test = d.test
  <2>1. a.definition = b.definition /\ a.definition.caps[i].name = b.definition.caps[j].name
    BY <1>1 DEF Capability, State
  <2>2. NamesOnce(a.definition.caps)
    BY HarnessAssumption DEF Defined
  <2>3. i = j
    BY <2>1, <2>2 DEF NamesOnce
  <2> QED BY <1>1, <2>1, <2>3 DEF Capability
<1>2. ASSUME NEW a \in ToolsIn, NEW i \in DOMAIN a.tests, c = OfTool(a, i),
             NEW b \in ToolsIn, NEW j \in DOMAIN b.tests, d = OfTool(b, j)
      PROVE  c.kind = d.kind /\ c.test = d.test
  <2>1. a = b /\ a.tests[i].name = b.tests[j].name
    BY <1>2 DEF OfTool, State
  <2>2. i = j
    BY <2>1, HarnessAssumption DEF NamesOnce
  <2> QED BY <1>2, <2>1, <2>2
<1>3. /\ c \in CapabilityTests => \E a \in AgentsIn : \E i \in DOMAIN a.definition.caps : c = Capability(a, i)
      /\ d \in CapabilityTests => \E a \in AgentsIn : \E i \in DOMAIN a.definition.caps : d = Capability(a, i)
  BY DEF CapabilityTests
<1>4. /\ c \in ToolTests => \E t \in ToolsIn : \E i \in DOMAIN t.tests : c = OfTool(t, i)
      /\ d \in ToolTests => \E t \in ToolsIn : \E i \in DOMAIN t.tests : d = OfTool(t, i)
  BY DEF ToolTests
<1>5. /\ c \in CapabilityTests => State(c) \in Defined
      /\ d \in CapabilityTests => State(d) \in Defined
  BY <1>3 DEF Capability, State, Defined
<1>6. /\ c \in ToolTests => State(c) \in ToolsIn
      /\ d \in ToolTests => State(d) \in ToolsIn
  BY <1>4 DEF OfTool, State
<1>7. (c \in CapabilityTests /\ d \in CapabilityTests) \/ (c \in ToolTests /\ d \in ToolTests)
  BY <1>5, <1>6, HarnessAssumption DEF Tests
<1>8. CASE c \in CapabilityTests /\ d \in CapabilityTests
  BY <1>1, <1>3, <1>8
<1>9. CASE c \in ToolTests /\ d \in ToolTests
  BY <1>2, <1>4, <1>9
<1> QED BY <1>7, <1>8, <1>9

(* What a hash is taken of tells the grounds of a result.                  *)
LEMMA KeysTell == \A s, e \in Refs : Key(s) = Key(e) => Grounds(s) = Grounds(e)
<1> SUFFICES ASSUME NEW s \in Refs, NEW e \in Refs, Key(s) = Key(e) PROVE Grounds(s) = Grounds(e)
  OBVIOUS
<1>1. PICK c : c = Candidates[s[1]][s[2]]
  OBVIOUS
<1>2. PICK d : d = Candidates[e[1]][e[2]]
  OBVIOUS
<1>3. c \in Tests /\ d \in Tests
  BY <1>1, <1>2, RefIs
<1>4. /\ Key(s) = <<c.name, Composite(c, Revisions[s[1]].profiles, s[3])>>
      /\ Key(e) = <<d.name, Composite(d, Revisions[e[1]].profiles, e[3])>>
  BY <1>1, <1>2 DEF Key
<1>5. c.name = d.name /\ Composite(c, Revisions[s[1]].profiles, s[3]) = Composite(d, Revisions[e[1]].profiles, e[3])
  <2>1. PICK k : k = Composite(c, Revisions[s[1]].profiles, s[3])
    OBVIOUS
  <2>2. PICK l : l = Composite(d, Revisions[e[1]].profiles, e[3])
    OBVIOUS
  <2>3. <<c.name, k>> = <<d.name, l>>
    BY <1>4, <2>1, <2>2, Zenon
  <2>4. c.name = d.name /\ k = l
    BY <2>3
  <2> QED BY <2>1, <2>2, <2>4, Zenon
<1>6. /\ State(c) = State(d) /\ Model(c) = Model(d) /\ s[3] = e[3]
      /\ Mocks(c, Revisions[s[1]].profiles) = Mocks(d, Revisions[e[1]].profiles)
  BY <1>5 DEF Composite
<1>7. c.kind = d.kind /\ c.test = d.test
  BY <1>3, <1>5, <1>6, NamedOnce
<1> QED BY <1>1, <1>2, <1>6, <1>7 DEF Grounds

(* What is earned of a capability held for the agent as it was compiled, so *)
(* it holds for every agent of the definition that is in the same mode.    *)
Earned == \A e \in earned : Candidates[e[1]][e[2]].kind = "capability" => HoldsAgain(e)

LEMMA EarnedVouches == ASSUME Earned, NEW s \in Refs, NEW e \in earned, e \in Refs, Key(s) = Key(e)
                       PROVE  Vouches(e, s)
<1>1. Grounds(s) = Grounds(e)
  BY KeysTell
<1>2. PICK c : c = Candidates[s[1]][s[2]]
  OBVIOUS
<1>3. PICK d : d = Candidates[e[1]][e[2]]
  OBVIOUS
<1>4. c.kind = d.kind /\ c.test = d.test /\ State(c) = State(d)
  BY <1>1, <1>2, <1>3 DEF Grounds
<1>5. ASSUME c.kind = "capability", c.target.mode = d.target.mode PROVE HoldsAgain(s)
  <2>1. c.target.definition = d.target.definition
    BY <1>4, <1>5 DEF State
  <2>2. Opened(c.target) = Opened(d.target)
    BY <1>5, <2>1 DEF Opened
  <2>3. RunCapability(d.test, Opened(d.target), d.target.definition.declared)
    BY <1>3, <1>4, <1>5 DEF Earned, HoldsAgain
  <2> QED BY <1>2, <1>4, <2>1, <2>2, <2>3 DEF HoldsAgain
<1> QED BY <1>1, <1>2, <1>3, <1>5 DEF Vouches

-----------------------------------------------------------------------------
(* The greedy match of a path.                                             *)
(* The first n steps are dispatched in order among the first k dispatches. *)
Into(n, k, steps, chain) ==
  \E f \in [1..n -> 1..k] :
    /\ \A i \in 1..n : steps[i] = chain[f[i]]
    /\ \A i, j \in 1..n : i < j => f[i] < f[j]

LEMMA IntoWidens ==
  ASSUME NEW n \in Nat, NEW k \in Nat, NEW l \in Nat, k <= l, NEW steps, NEW chain, Into(n, k, steps, chain)
  PROVE  Into(n, l, steps, chain)
<1>1. PICK f \in [1..n -> 1..k] : (\A i \in 1..n : steps[i] = chain[f[i]]) /\ \A i, j \in 1..n : i < j => f[i] < f[j]
  BY DEF Into
<1>2. f \in [1..n -> 1..l]
  BY <1>1
<1> QED BY <1>1, <1>2 DEF Into

LEMMA IntoShortens ==
  ASSUME NEW n \in Nat, NEW m \in Nat, m <= n, NEW k \in Nat, NEW steps, NEW chain, Into(n, k, steps, chain)
  PROVE  Into(m, k, steps, chain)
<1>1. PICK f \in [1..n -> 1..k] : (\A i \in 1..n : steps[i] = chain[f[i]]) /\ \A i, j \in 1..n : i < j => f[i] < f[j]
  BY DEF Into
<1>2. PICK g : g = [i \in 1..m |-> f[i]]
  OBVIOUS
<1>3. \A i \in 1..m : i \in 1..n /\ g[i] = f[i]
  BY <1>2
<1>4. g \in [1..m -> 1..k]
  BY <1>1, <1>2, <1>3
<1>5. \A i \in 1..m : steps[i] = chain[g[i]]
  BY <1>1, <1>3
<1>6. ASSUME NEW i \in 1..m, NEW j \in 1..m, i < j PROVE g[i] < g[j]
  BY <1>1, <1>3, <1>6
<1>7. \E h \in [1..m -> 1..k] : (\A i \in 1..m : steps[i] = chain[h[i]]) /\ \A i, j \in 1..m : i < j => h[i] < h[j]
  BY <1>4, <1>5, <1>6
<1> QED BY <1>7 DEF Into

(* A last step that is dispatched next.                                    *)
LEMMA IntoGrows ==
  ASSUME NEW n \in Nat, NEW k \in Nat, NEW steps, NEW chain, Into(n, k, steps, chain), steps[n + 1] = chain[k + 1]
  PROVE  Into(n + 1, k + 1, steps, chain)
<1>1. PICK f \in [1..n -> 1..k] : (\A i \in 1..n : steps[i] = chain[f[i]]) /\ \A i, j \in 1..n : i < j => f[i] < f[j]
  BY DEF Into
<1>2. PICK g : g = [i \in 1..n + 1 |-> IF i = n + 1 THEN k + 1 ELSE f[i]]
  OBVIOUS
<1>3. ASSUME NEW i \in 1..n + 1
      PROVE  (i = n + 1 /\ g[i] = k + 1) \/ (i \in 1..n /\ g[i] = f[i] /\ f[i] \in 1..k)
  BY <1>1, <1>2
<1>4. g \in [1..n + 1 -> 1..k + 1]
  <2>1. \A i \in 1..n + 1 : g[i] \in 1..k + 1
    BY <1>3
  <2> QED BY <1>2, <2>1
<1>5. \A i \in 1..n + 1 : steps[i] = chain[g[i]]
  BY <1>1, <1>3
<1>6. ASSUME NEW i \in 1..n + 1, NEW j \in 1..n + 1, i < j PROVE g[i] < g[j]
  <2>1. i \in 1..n /\ g[i] = f[i] /\ f[i] \in 1..k
    BY <1>3, <1>6
  <2>2. CASE j = n + 1
    <3>1. g[j] = k + 1
      BY <1>2, <2>2
    <3> QED BY <2>1, <3>1
  <2>3. CASE j \in 1..n
    <3>1. g[j] = f[j]
      BY <1>3, <2>3
    <3> QED BY <1>1, <1>6, <2>1, <2>3, <3>1
  <2> QED BY <1>3, <2>2, <2>3
<1>7. \E h \in [1..n + 1 -> 1..k + 1] : (\A i \in 1..n + 1 : steps[i] = chain[h[i]]) /\ \A i, j \in 1..n + 1 : i < j => h[i] < h[j]
  BY <1>4, <1>5, <1>6
<1> QED BY <1>7 DEF Into

(* Of what is dispatched in order, the last step is the last dispatch, or   *)
(* all of it was dispatched before.                                        *)
LEMMA IntoParts ==
  ASSUME NEW n \in Nat \ {0}, NEW k \in Nat \ {0}, NEW steps, NEW chain, Into(n, k, steps, chain)
  PROVE  Into(n, k - 1, steps, chain) \/ (Into(n - 1, k - 1, steps, chain) /\ steps[n] = chain[k])
<1>1. PICK f \in [1..n -> 1..k] : (\A i \in 1..n : steps[i] = chain[f[i]]) /\ \A i, j \in 1..n : i < j => f[i] < f[j]
  BY DEF Into
<1>2. n \in 1..n /\ f[n] \in 1..k
  BY <1>1
<1>3. \A i \in 1..n - 1 : i \in 1..n /\ f[i] \in 1..k /\ f[i] < f[n]
  BY <1>1, <1>2
<1>4. CASE f[n] = k
  <2>1. PICK g : g = [i \in 1..n - 1 |-> f[i]]
    OBVIOUS
  <2>2. \A i \in 1..n - 1 : i \in 1..n /\ g[i] = f[i] /\ g[i] \in 1..k - 1
    BY <1>3, <1>4, <2>1
  <2>3. g \in [1..n - 1 -> 1..k - 1]
    BY <2>1, <2>2
  <2>4. (\A i \in 1..n - 1 : steps[i] = chain[g[i]]) /\ \A i, j \in 1..n - 1 : i < j => g[i] < g[j]
    BY <1>1, <2>2
  <2>5. Into(n - 1, k - 1, steps, chain)
    BY <2>3, <2>4 DEF Into
  <2> QED BY <1>1, <1>2, <1>4, <2>5
<1>5. CASE f[n] # k
  <2>1. \A i \in 1..n : f[i] \in 1..k - 1
    BY <1>2, <1>3, <1>5
  <2>2. f \in [1..n -> 1..k - 1]
    BY <1>1, <2>1
  <2> QED BY <1>1, <2>2 DEF Into
<1> QED BY <1>4, <1>5

Advance(m, k, chain, steps) == IF m < Len(steps) /\ chain[k] = steps[m + 1] THEN m + 1 ELSE m

(* The matches, dispatch by dispatch.                                      *)
Greedy(m, chain, steps) ==
  /\ m[0] = 0
  /\ \A k \in 1..Len(chain) : m[k] = Advance(m[k - 1], k, chain, steps)

LEMMA MatchedIs == \A chain, steps : Len(chain) \in Nat /\ Len(steps) \in Nat =>
  \E m : Greedy(m, chain, steps) /\ Matched(chain, steps) = m[Len(chain)]
<1> SUFFICES ASSUME NEW chain, NEW steps, Len(chain) \in Nat, Len(steps) \in Nat
             PROVE  \E m : Greedy(m, chain, steps) /\ Matched(chain, steps) = m[Len(chain)]
  OBVIOUS
<1>1. PICK N \in Nat : N = Len(chain)
  OBVIOUS
<1> DEFINE Good(f, n) == f = [k \in 0..n |-> IF k = 0 THEN 0
                                ELSE IF f[k - 1] < Len(steps) /\ chain[k] = steps[f[k - 1] + 1] THEN f[k - 1] + 1 ELSE f[k - 1]]
           Bad == {n \in Nat : ~\E f : Good(f, n)}
<1>2. Bad = {}
  <2> SUFFICES ASSUME Bad # {} PROVE FALSE
    OBVIOUS
  <2>1. Min(Bad) \in Bad /\ \A n \in Bad : Min(Bad) <= n
    <3>1. Bad \in SUBSET Nat
      OBVIOUS
    <3> HIDE DEF Bad
    <3> QED BY <3>1, LeastIn
  <2>2. PICK b : b = Min(Bad)
    OBVIOUS
  <2>3. b \in Nat /\ ~\E f : Good(f, b)
    BY <2>1, <2>2
  <2>4. CASE b = 0
    <3> DEFINE f == [k \in 0..0 |-> 0]
    <3>1. Good(f, 0)
      OBVIOUS
    <3> QED BY <2>3, <2>4, <3>1
  <2>5. CASE b # 0
    <3>1. b - 1 \in Nat /\ ~(b <= b - 1)
      BY <2>3, <2>5
    <3>2. PICK g : Good(g, b - 1)
      BY <2>1, <2>2, <3>1
    <3> DEFINE f == [k \in 0..b |-> IF k = b THEN Advance(g[b - 1], b, chain, steps) ELSE g[k]]
    <3>3. ASSUME NEW k \in 0..b PROVE f[k] = IF k = 0 THEN 0 ELSE Advance(f[k - 1], k, chain, steps)
      <4>1. CASE k = b
        <5>1. b - 1 \in 0..b /\ b - 1 # b
          BY <2>3, <2>5
        <5>2. f[b - 1] = g[b - 1] /\ f[b] = Advance(g[b - 1], b, chain, steps)
          BY <2>3, <5>1
        <5> HIDE DEF f
        <5> QED BY <2>5, <4>1, <5>2
      <4>2. CASE k # b
        <5>1. k \in 0..b - 1 /\ k - 1 # b /\ (k # 0 => k - 1 \in 0..b)
          BY <2>3, <4>2
        <5>2. g[k] = IF k = 0 THEN 0 ELSE Advance(g[k - 1], k, chain, steps)
          BY <3>2, <5>1 DEF Advance
        <5>3. f[k] = g[k] /\ (k # 0 => f[k - 1] = g[k - 1])
          BY <4>2, <5>1
        <5> HIDE DEF f
        <5> QED BY <5>2, <5>3
      <4> QED BY <4>1, <4>2
    <3>4. DOMAIN f = 0..b /\ f = [k \in 0..b |-> f[k]]
      OBVIOUS
    <3> HIDE DEF f
    <3>5. Good(f, b)
      BY <3>3, <3>4 DEF Advance
    <3> QED BY <2>3, <3>5
  <2> QED BY <2>4, <2>5
<1>3. \E f : Good(f, N)
  BY <1>2
<1>4. PICK m : m = CHOOSE f : Good(f, N)
  OBVIOUS
<1>5. Good(m, N)
  BY <1>3, <1>4
<1>6. Matched(chain, steps) = m[N]
  BY <1>1, <1>4 DEF Matched
<1>7. m[0] = 0
  <2>1. 0 \in 0..N
    OBVIOUS
  <2> QED BY <1>5, <2>1
<1>8. \A k \in 1..N : m[k] = Advance(m[k - 1], k, chain, steps)
  <2> SUFFICES ASSUME NEW k \in 1..N PROVE m[k] = Advance(m[k - 1], k, chain, steps)
    OBVIOUS
  <2>1. k \in 0..N /\ k # 0
    OBVIOUS
  <2> QED BY <1>5, <2>1 DEF Advance
<1> QED BY <1>1, <1>6, <1>7, <1>8 DEF Greedy

(* What is matched is the longest beginning that is dispatched in order.   *)
Best(m, k, chain, steps) ==
  m[k] \in 0..Len(steps) /\ \A n \in 0..Len(steps) : Into(n, k, steps, chain) <=> n <= m[k]

LEMMA GreedyIsBest == \A chain, steps, m : Len(chain) \in Nat /\ Len(steps) \in Nat /\ Greedy(m, chain, steps) =>
  \A k \in 0..Len(chain) : Best(m, k, chain, steps)
<1> SUFFICES ASSUME NEW chain, NEW steps, NEW m, Len(chain) \in Nat, Len(steps) \in Nat, Greedy(m, chain, steps)
             PROVE  \A k \in 0..Len(chain) : Best(m, k, chain, steps)
  OBVIOUS
<1>1. PICK N \in Nat : N = Len(chain)
  OBVIOUS
<1>2. PICK L \in Nat : L = Len(steps)
  OBVIOUS
<1> DEFINE Longest(k) == m[k] \in 0..L /\ \A n \in 0..L : Into(n, k, steps, chain) <=> n <= m[k]
           Bad == {k \in Nat : k <= N /\ ~Longest(k)}
<1>3. Longest(0)
  <2>1. m[0] = 0
    BY DEF Greedy
  <2>2. ASSUME NEW n \in 0..L, Into(n, 0, steps, chain) PROVE n <= 0
    <3>1. PICK f \in [1..n -> 1..0] : TRUE
      BY <2>2 DEF Into
    <3>2. n # 0 => 1 \in 1..n /\ f[1] \in 1..0
      BY <3>1
    <3> QED BY <3>2
  <2>3. Into(0, 0, steps, chain)
    <3>1. PICK f : f = [i \in 1..0 |-> 1]
      OBVIOUS
    <3>2. f \in [1..0 -> 1..0]
      BY <3>1
    <3>3. \A i \in 1..0 : FALSE
      OBVIOUS
    <3> QED BY <3>2, <3>3 DEF Into
  <2>4. \A n \in 0..L : n <= 0 => n = 0
    OBVIOUS
  <2> QED BY <2>1, <2>2, <2>3, <2>4
<1>4. ASSUME NEW k \in 1..N, Longest(k - 1) PROVE Longest(k)
  <2>1. m[k] = Advance(m[k - 1], k, chain, steps)
    BY <1>1 DEF Greedy
  <2>2. PICK p \in 0..L : p = m[k - 1]
    BY <1>4
  <2>3. PICK q : q = m[k]
    OBVIOUS
  <2>4. q = IF p < L /\ chain[k] = steps[p + 1] THEN p + 1 ELSE p
    BY <1>2, <2>1, <2>2, <2>3 DEF Advance
  <2>5. q \in 0..L /\ p <= q
    BY <2>4
  <2>6. \A n \in 0..L : Into(n, k - 1, steps, chain) <=> n <= p
    BY <1>4, <2>2
  <2>7. k \in Nat /\ k - 1 \in Nat /\ k # 0
    OBVIOUS
  <2> HIDE DEF Longest
  <2>8. ASSUME NEW n \in 0..L, n <= q PROVE Into(n, k, steps, chain)
    <3>1. CASE n <= p
      <4>1. Into(n, k - 1, steps, chain)
        BY <2>6, <3>1
      <4>2. n \in Nat /\ k - 1 <= k
        BY <2>7
      <4> QED BY <2>7, <4>1, <4>2, IntoWidens
    <3>2. CASE ~(n <= p)
      <4>1. n = p + 1 /\ p < L /\ chain[k] = steps[p + 1] /\ p \in Nat
        BY <2>4, <2>8, <3>2
      <4>2. Into(p, k - 1, steps, chain)
        BY <2>6
      <4>3. (k - 1) + 1 = k
        BY <2>7
      <4>4. steps[p + 1] = chain[(k - 1) + 1]
        BY <4>1, <4>3
      <4>5. Into(p + 1, (k - 1) + 1, steps, chain)
        BY <2>7, <4>1, <4>2, <4>4, IntoGrows
      <4> QED BY <4>1, <4>3, <4>5
    <3> QED BY <3>1, <3>2
  <2>9. ASSUME NEW n \in 0..L, Into(n, k, steps, chain) PROVE n <= q
    <3>1. CASE n = 0
      BY <2>5, <3>1
    <3>2. CASE n # 0
      <4>1. n \in Nat \ {0} /\ k \in Nat \ {0} /\ n - 1 \in 0..L
        BY <2>7, <3>2
      <4>2. Into(n, k - 1, steps, chain) \/ (Into(n - 1, k - 1, steps, chain) /\ steps[n] = chain[k])
        BY <2>9, <4>1, IntoParts
      <4>3. CASE Into(n, k - 1, steps, chain)
        BY <2>5, <2>6, <4>3
      <4>4. CASE Into(n - 1, k - 1, steps, chain) /\ steps[n] = chain[k]
        <5>1. n - 1 <= p
          BY <2>6, <4>1, <4>4
        <5>2. n - 1 = p => n = p + 1 /\ p < L /\ chain[k] = steps[p + 1]
          <6> SUFFICES ASSUME n - 1 = p PROVE n = p + 1 /\ p < L /\ chain[k] = steps[p + 1]
            OBVIOUS
          <6>1. n = p + 1 /\ p < L
            BY <4>1
          <6> QED BY <4>4, <6>1
        <5> QED BY <2>4, <2>5, <5>1, <5>2
      <4> QED BY <4>2, <4>3, <4>4
    <3> QED BY <3>1, <3>2
  <2> QED BY <2>3, <2>5, <2>8, <2>9 DEF Longest
<1>5. Bad = {}
  <2> SUFFICES ASSUME Bad # {} PROVE FALSE
    OBVIOUS
  <2>1. Min(Bad) \in Bad /\ \A n \in Bad : Min(Bad) <= n
    <3>1. Bad \in SUBSET Nat
      OBVIOUS
    <3> HIDE DEF Bad
    <3> QED BY <3>1, LeastIn
  <2>2. PICK b : b = Min(Bad)
    OBVIOUS
  <2>3. b \in Nat /\ b <= N /\ ~Longest(b) /\ \A n \in Bad : b <= n
    BY <2>1, <2>2
  <2>4. b # 0
    BY <1>3, <2>3
  <2> HIDE DEF Longest
  <2>5. Longest(b - 1)
    <3>1. b - 1 \in Nat /\ b - 1 <= N /\ ~(b <= b - 1)
      BY <2>3, <2>4
    <3> QED BY <2>3, <3>1
  <2>6. b \in 1..N
    BY <2>3, <2>4
  <2> QED BY <1>4, <2>3, <2>5, <2>6
<1> HIDE DEF Longest
<1>6. \A k \in 0..N : Longest(k)
  BY <1>5
<1> QED BY <1>1, <1>2, <1>6 DEF Longest, Best

(* The verdicts of PathOrder.                                              *)
LEMMA EmbedsIs ==
  ASSUME NEW steps, NEW chain, NEW n \in Nat, NEW k \in Nat, DOMAIN steps = 1..n, DOMAIN chain = 1..k
  PROVE  Embeds(steps, chain) <=> Into(n, k, steps, chain)
BY DEF Embeds, Into

LEMMA Beginning == \A T : \A s \in Seq(T) : \A n \in 0..Len(s) :
  DOMAIN SubSeq(s, 1, n) = 1..n /\ \A i \in 1..n : SubSeq(s, 1, n)[i] = s[i]
<1> SUFFICES ASSUME NEW T, NEW s \in Seq(T), NEW n \in 0..Len(s)
             PROVE  DOMAIN SubSeq(s, 1, n) = 1..n /\ \A i \in 1..n : SubSeq(s, 1, n)[i] = s[i]
  OBVIOUS
<1>1. PICK u : u = SubSeq(s, 1, n)
  OBVIOUS
<1>2. PICK N \in Nat : N = Len(s)
  OBVIOUS
<1>3. n \in 0..N
  BY <1>2
<1>4. u \in Seq(T) /\ Len(u) = n /\ \A i \in 1..n : u[i] = s[i]
  <2>1. 1 \in Int /\ n \in Int /\ \A i \in 1..n : s[i] \in T
    BY <1>2, <1>3
  <2>2. /\ u \in Seq(T)
        /\ Len(u) = IF 1 <= n THEN n - 1 + 1 ELSE 0
        /\ \A i \in 1..n - 1 + 1 : u[i] = s[1 + i - 1]
    BY <1>1, <2>1, SubSeqProperties
  <2>3. \A i \in 1..n : 1 + i - 1 = i /\ n - 1 + 1 = n
    BY <1>3
  <2> QED BY <1>3, <2>2, <2>3
<1> QED BY <1>1, <1>3, <1>4

LEMMA BeginningInto ==
  ASSUME NEW T, NEW s \in Seq(T), NEW n \in 0..Len(s), NEW chain, NEW k \in Nat, DOMAIN chain = 1..k
  PROVE  Embeds(SubSeq(s, 1, n), chain) <=> Into(n, k, s, chain)
<1>1. PICK u : u = SubSeq(s, 1, n)
  OBVIOUS
<1>2. n \in Nat /\ DOMAIN u = 1..n /\ \A i \in 1..n : u[i] = s[i]
  BY <1>1, Beginning
<1>3. Embeds(u, chain) <=> Into(n, k, u, chain)
  BY <1>2, EmbedsIs
<1>4. Into(n, k, u, chain) <=> Into(n, k, s, chain)
  BY <1>2 DEF Into
<1> QED BY <1>1, <1>3, <1>4

LEMMA AdjacentIsOrdered ==
  ASSUME NEW T, NEW steps \in Seq(T), NEW U, NEW chain \in Seq(U), Contiguous(chain, steps)
  PROVE  Embeds(steps, chain)
<1>1. PICK N \in Nat : N = Len(chain)
  OBVIOUS
<1>2. PICK L \in Nat : L = Len(steps)
  OBVIOUS
<1>3. PICK start \in 0..N - L : SubSeq(chain, start + 1, start + L) = steps
  BY <1>1, <1>2 DEF Contiguous
<1>4. start \in Nat /\ start + L <= N
  BY <1>3
<1>5. \A i \in 1..L : steps[i] = chain[start + i] /\ start + i \in 1..N
  <2>1. start + 1 \in Int /\ start + L \in Int /\ \A i \in start + 1..start + L : chain[i] \in U
    BY <1>1, <1>4
  <2>2. \A i \in 1..start + L - (start + 1) + 1 : SubSeq(chain, start + 1, start + L)[i] = chain[start + 1 + i - 1]
    <3>1. PICK a \in Int : a = start + 1
      BY <2>1
    <3>2. PICK b \in Int : b = start + L
      BY <2>1
    <3>3. \A i \in a..b : chain[i] \in U
      BY <2>1, <3>1, <3>2
    <3>4. \A i \in 1..b - a + 1 : SubSeq(chain, a, b)[i] = chain[a + i - 1]
      BY <3>3, SubSeqProperties
    <3> QED BY <3>1, <3>2, <3>4
  <2>3. \A i \in 1..L : i \in 1..start + L - (start + 1) + 1 /\ start + 1 + i - 1 = start + i /\ start + i \in 1..N
    BY <1>4
  <2> QED BY <1>3, <2>2, <2>3
<1>6. PICK f : f = [i \in 1..L |-> start + i]
  OBVIOUS
<1>7. f \in [1..L -> 1..N] /\ \A i \in 1..L : f[i] = start + i
  BY <1>5, <1>6
<1>8. \A i, j \in 1..L : i < j => f[i] < f[j]
  BY <1>4, <1>7
<1>9. Into(L, N, steps, chain)
  BY <1>5, <1>7, <1>8 DEF Into
<1>10. DOMAIN steps = 1..L /\ DOMAIN chain = 1..N
  BY <1>1, <1>2
<1> QED BY <1>9, <1>10, EmbedsIs

-----------------------------------------------------------------------------
(* The path of a branch test.                                              *)
OrderGraded(path, contiguous, t) ==
  PathOrder([kind |-> "path_order", steps |-> path, contiguous |-> contiguous], Context(t.output, t.calls, Unset))

LEMMA GradedIs == \A path, t :
  /\ path = <<>> => OrderGraded(path, FALSE, t).passed = TRUE /\ OrderGraded(path, TRUE, t).passed = TRUE
  /\ path # <<>> =>
       /\ OrderGraded(path, FALSE, t).passed = (Matched(Names(t.calls), path) = Len(path))
       /\ OrderGraded(path, FALSE, t).score = <<Matched(Names(t.calls), path), Len(path)>>
       /\ OrderGraded(path, TRUE, t).passed = Contiguous(Names(t.calls), path)
<1> SUFFICES ASSUME NEW path, NEW t
             PROVE  /\ path = <<>> => OrderGraded(path, FALSE, t).passed = TRUE /\ OrderGraded(path, TRUE, t).passed = TRUE
                    /\ path # <<>> =>
                         /\ OrderGraded(path, FALSE, t).passed = (Matched(Names(t.calls), path) = Len(path))
                         /\ OrderGraded(path, FALSE, t).score = <<Matched(Names(t.calls), path), Len(path)>>
                         /\ OrderGraded(path, TRUE, t).passed = Contiguous(Names(t.calls), path)
  OBVIOUS
<1>1. PICK free : free = [kind |-> "path_order", steps |-> path, contiguous |-> FALSE]
  OBVIOUS
<1>2. PICK strict : strict = [kind |-> "path_order", steps |-> path, contiguous |-> TRUE]
  OBVIOUS
<1>3. free.steps = path /\ free.contiguous = FALSE /\ strict.steps = path /\ strict.contiguous = TRUE
  BY <1>1, <1>2
<1>4. PICK ctx : ctx = Context(t.output, t.calls, Unset)
  OBVIOUS
<1>5. ctx.calls = t.calls
  BY <1>4 DEF Context
<1>6. OrderGraded(path, FALSE, t) = PathOrder(free, ctx) /\ OrderGraded(path, TRUE, t) = PathOrder(strict, ctx)
  BY <1>1, <1>2, <1>4 DEF OrderGraded
<1>7. ASSUME path = <<>> PROVE OrderGraded(path, FALSE, t).passed = TRUE /\ OrderGraded(path, TRUE, t).passed = TRUE
  <2>1. PathOrder(free, ctx) = Verdict(TRUE) /\ PathOrder(strict, ctx) = Verdict(TRUE)
    BY <1>3, <1>7 DEF PathOrder
  <2>2. Verdict(TRUE).passed = TRUE
    BY DEF Verdict, Result
  <2> QED BY <1>6, <2>1, <2>2
<1>8. ASSUME path # <<>>
      PROVE  /\ OrderGraded(path, FALSE, t).passed = (Matched(Names(t.calls), path) = Len(path))
             /\ OrderGraded(path, FALSE, t).score = <<Matched(Names(t.calls), path), Len(path)>>
             /\ OrderGraded(path, TRUE, t).passed = Contiguous(Names(t.calls), path)
  <2>1. PICK n : n = Matched(Names(t.calls), path)
    OBVIOUS
  <2>2. PathOrder(free, ctx) = Result(n = Len(path), <<n, Len(path)>>)
    BY <1>3, <1>5, <1>8, <2>1, Zenon DEF PathOrder
  <2>3. PathOrder(strict, ctx) = Verdict(Contiguous(Names(t.calls), path))
    BY <1>3, <1>5, <1>8, Zenon DEF PathOrder
  <2>4. Result(n = Len(path), <<n, Len(path)>>).passed = (n = Len(path)) /\ Result(n = Len(path), <<n, Len(path)>>).score = <<n, Len(path)>>
    BY DEF Result
  <2>5. Verdict(Contiguous(Names(t.calls), path)).passed = Contiguous(Names(t.calls), path)
    BY DEF Verdict, Result
  <2> QED BY <1>6, <2>1, <2>2, <2>3, <2>4, <2>5, Zenon
<1> QED BY <1>7, <1>8

Dispatches == [name : Steps, args : {Nothing}, output : {Nothing}]

LEMMA ChainIs == \A T : \A cs : (cs \in Seq(T) /\ \A i \in DOMAIN cs : cs[i].name \in Steps) =>
  Names(cs) \in Seq(Steps) /\ Len(Names(cs)) = Len(cs)
<1> SUFFICES ASSUME NEW T, NEW cs \in Seq(T), \A i \in DOMAIN cs : cs[i].name \in Steps
             PROVE  Names(cs) \in Seq(Steps) /\ Len(Names(cs)) = Len(cs)
  OBVIOUS
<1>1. PICK N \in Nat : N = Len(cs)
  OBVIOUS
<1>2. DOMAIN cs = 1..N
  BY <1>1
<1>3. Names(cs) = [i \in 1..N |-> cs[i].name]
  BY <1>2 DEF Names
<1> QED BY <1>1, <1>2, <1>3

(* What PathMeansOrder says of one test.                                   *)
PathHeld(test) ==
  /\ OrderGraded(test.path, FALSE, [calls |-> calls, output |-> Nothing]).passed <=> Embeds(test.path, Names(calls))
  /\ test.path # <<>> =>
       \E n \in 0..Len(test.path) :
         /\ OrderGraded(test.path, FALSE, [calls |-> calls, output |-> Nothing]).score = <<n, Len(test.path)>>
         /\ Embeds(SubSeq(test.path, 1, n), Names(calls))
         /\ n < Len(test.path) => ~Embeds(SubSeq(test.path, 1, n + 1), Names(calls))
  /\ OrderGraded(test.path, TRUE, [calls |-> calls, output |-> Nothing]).passed
       => OrderGraded(test.path, FALSE, [calls |-> calls, output |-> Nothing]).passed
  /\ (\E c \in ToSet(test.contracts) : c.required /\ c.step \notin ToSet(Names(calls)))
       => ~BranchPasses(test, [calls |-> calls, output |-> Nothing], Unset)
  /\ OrderGraded(test.path, TRUE, MockChain(test)).passed

(* The greedy match says which beginnings are dispatched in order.         *)
MatchTells(chain, path) ==
  /\ Matched(chain, path) \in 0..Len(path)
  /\ \A n \in 0..Len(path) : Embeds(SubSeq(path, 1, n), chain) <=> n <= Matched(chain, path)
  /\ Embeds(path, chain) <=> Matched(chain, path) = Len(path)

LEMMA MatchedTells == \A T, U : \A path \in Seq(T), chain \in Seq(U) : MatchTells(chain, path)
<1> SUFFICES ASSUME NEW T, NEW U, NEW path \in Seq(T), NEW chain \in Seq(U) PROVE MatchTells(chain, path)
  OBVIOUS
<1>1. PICK L \in Nat : L = Len(path)
  OBVIOUS
<1>2. PICK N \in Nat : N = Len(chain)
  OBVIOUS
<1>3. PICK m : Greedy(m, chain, path) /\ Matched(chain, path) = m[N]
  BY <1>1, <1>2, MatchedIs
<1>4. Best(m, N, chain, path)
  <2>1. N \in 0..Len(chain)
    BY <1>2
  <2> QED BY <1>1, <1>2, <1>3, <2>1, GreedyIsBest
<1>5. PICK k : k = Matched(chain, path)
  OBVIOUS
<1>6. k \in 0..L /\ \A n \in 0..L : Into(n, N, path, chain) <=> n <= k
  BY <1>1, <1>3, <1>4, <1>5 DEF Best
<1>7. DOMAIN chain = 1..N /\ DOMAIN path = 1..L
  BY <1>1, <1>2
<1>8. ASSUME NEW n \in 0..L PROVE Embeds(SubSeq(path, 1, n), chain) <=> n <= k
  <2>1. Embeds(SubSeq(path, 1, n), chain) <=> Into(n, N, path, chain)
    BY <1>1, <1>7, BeginningInto
  <2> QED BY <1>6, <2>1
<1>9. Embeds(path, chain) <=> k = L
  <2>1. Embeds(path, chain) <=> Into(L, N, path, chain)
    BY <1>7, EmbedsIs
  <2>2. Into(L, N, path, chain) <=> L <= k
    BY <1>6
  <2> QED BY <1>6, <2>1, <2>2
<1> QED BY <1>1, <1>5, <1>6, <1>8, <1>9 DEF MatchTells

LEMMA PathHolds == calls \in Seq(Dispatches) => PathMeansOrder
<1> SUFFICES ASSUME calls \in Seq(Dispatches), NEW test \in Branches PROVE PathHeld(test)
  BY DEF PathMeansOrder, DeclaredChainPasses, Graded, PathHeld, OrderGraded
<1>1. PICK chain : chain = Names(calls)
  OBVIOUS
<1>2. PICK path : path = test.path
  OBVIOUS
<1>3. PICK t : t = [calls |-> calls, output |-> Nothing]
  OBVIOUS
<1>4. t.calls = calls /\ Names(t.calls) = chain
  BY <1>1, <1>3
<1>5. chain \in Seq(Steps)
  <2>1. \A i \in DOMAIN calls : calls[i] \in Dispatches
    OBVIOUS
  <2>2. \A i \in DOMAIN calls : calls[i].name \in Steps
    BY <2>1 DEF Dispatches
  <2> QED BY <1>1, <2>2, ChainIs
<1>6. path \in Seq(ToSet(path))
  BY <1>2, HarnessAssumption DEF IsList
<1>7. PICK L \in Nat : L = Len(path)
  BY <1>6
<1>8. MatchTells(chain, path)
  BY <1>5, <1>6, MatchedTells
<1>9. OrderGraded(path, FALSE, t).passed <=> Embeds(path, chain)
  <2>1. CASE path = <<>>
    <3>1. OrderGraded(path, FALSE, t).passed
      BY <2>1, GradedIs
    <3>2. Len(path) = 0
      BY <2>1
    <3>3. Embeds(path, chain)
      BY <1>8, <3>2 DEF MatchTells
    <3> QED BY <3>1, <3>3
  <2>2. CASE path # <<>>
    <3>1. OrderGraded(path, FALSE, t).passed = (Matched(chain, path) = Len(path))
      BY <1>4, <2>2, GradedIs
    <3> QED BY <1>8, <3>1 DEF MatchTells
  <2> QED BY <2>1, <2>2
<1>10. ASSUME path # <<>>
       PROVE  \E n \in 0..Len(path) :
                /\ OrderGraded(path, FALSE, t).score = <<n, Len(path)>>
                /\ Embeds(SubSeq(path, 1, n), chain)
                /\ n < Len(path) => ~Embeds(SubSeq(path, 1, n + 1), chain)
  <2>1. PICK n : n = Matched(chain, path)
    OBVIOUS
  <2>2. n \in 0..L /\ \A k \in 0..L : Embeds(SubSeq(path, 1, k), chain) <=> k <= n
    BY <1>7, <1>8, <2>1 DEF MatchTells
  <2>3. OrderGraded(path, FALSE, t).score = <<n, Len(path)>>
    BY <1>4, <1>10, <2>1, GradedIs
  <2>4. n < L => n + 1 \in 0..L /\ ~(n + 1 <= n)
    BY <2>2
  <2>5. Embeds(SubSeq(path, 1, n), chain) /\ (n < L => ~Embeds(SubSeq(path, 1, n + 1), chain))
    BY <2>2, <2>4
  <2> QED BY <1>7, <2>2, <2>3, <2>5
<1>11. ASSUME OrderGraded(path, TRUE, t).passed PROVE OrderGraded(path, FALSE, t).passed
  <2>1. CASE path = <<>>
    BY <2>1, GradedIs
  <2>2. CASE path # <<>>
    <3>1. Contiguous(chain, path)
      BY <1>4, <1>11, <2>2, GradedIs
    <3>2. Embeds(path, chain)
      BY <1>5, <1>6, <3>1, AdjacentIsOrdered
    <3> QED BY <1>9, <3>2
  <2> QED BY <2>1, <2>2
<1>12. ASSUME NEW c \in ToSet(test.contracts), c.required, c.step \notin ToSet(chain)
       PROVE  ~BranchPasses(test, t, Unset)
  <2>1. \A d \in ToSet(calls) : d.name \in ToSet(chain)
    <3> SUFFICES ASSUME NEW i \in DOMAIN calls PROVE calls[i].name \in ToSet(chain)
      BY DEF ToSet
    <3>1. i \in DOMAIN chain /\ chain[i] = calls[i].name
      BY <1>1 DEF Names
    <3> QED BY <3>1 DEF ToSet
  <2>2. {d \in ToSet(t.calls) : d.name = c.step} = {}
    BY <1>4, <1>12, <2>1
  <2>3. StepContract(c, t, Unset) = {Result(FALSE, Zero)}
    BY <1>12, <2>2 DEF StepContract
  <2>4. Result(FALSE, Zero) \in BranchResults(test, t, Unset)
    BY <2>3 DEF BranchResults, StepContracts
  <2>5. Result(FALSE, Zero).passed = FALSE
    BY DEF Result
  <2> QED BY <2>4, <2>5 DEF BranchPasses
<1>13. OrderGraded(path, TRUE, MockChain(test)).passed
  <2>1. CASE path = <<>>
    BY <2>1, GradedIs
  <2>2. CASE path # <<>>
    <3>1. Names(MockChain(test).calls) = path
      <4>1. DOMAIN path = 1..L /\ path = [i \in 1..L |-> path[i]]
        BY <1>6, <1>7
      <4>2. PICK cs : cs = MockChain(test).calls
        OBVIOUS
      <4>3. DOMAIN cs = 1..L /\ \A i \in 1..L : cs[i].name = path[i]
        BY <1>2, <4>1, <4>2 DEF MockChain
      <4>4. Names(cs) = [i \in 1..L |-> path[i]]
        BY <4>3 DEF Names
      <4> QED BY <4>1, <4>2, <4>4
    <3>2. Contiguous(path, path)
      <4>1. SubSeq(path, 1, Len(path)) = path
        BY <1>6, SubSeqFull
      <4>2. 0 \in 0..(Len(path) - Len(path)) /\ 0 + 1 = 1 /\ 0 + Len(path) = Len(path)
        BY <1>7
      <4>3. SubSeq(path, 0 + 1, 0 + Len(path)) = path
        BY <4>1, <4>2
      <4> QED BY <4>2, <4>3 DEF Contiguous
    <3> QED BY <2>2, <3>1, <3>2, GradedIs
  <2> QED BY <2>1, <2>2
<1> QED BY <1>1, <1>2, <1>3, <1>9, <1>10, <1>11, <1>12, <1>13 DEF PathHeld

-----------------------------------------------------------------------------
(* The runs over the file.                                                 *)
Lines == [by : Procs, ref : Refs, passed : BOOLEAN, part : {"whole", "head", "rest"}]

Tallies == [discovered : Nat, skipped : Nat, passed : Nat, failed : Nat, notRunnable : Nat]

Testing ==
  [pc : {"index", "tests"}, options : Options, rev : DOMAIN Revisions, todo : Seq(Nat), agents : Nat,
   index : SUBSET Refs, buffer : Seq(Lines), skips : SUBSET Refs, steady : BOOLEAN, again : BOOLEAN, summary : Tallies]

Ended == [pc : {"done"}, options : Options, again : BOOLEAN, skips : SUBSET Refs, summary : Tallies]

NotRun == [pc : {"idle", "raised"}]

Worlds == [revision : DOMAIN Revisions, scripts : DOMAIN Scripts, options : Options]

HarnessTyped ==
  /\ revision \in DOMAIN Revisions /\ scripts \in DOMAIN Scripts
  /\ file \in Seq(Lines) /\ run \in [Procs -> NotRun \cup Testing \cup Ended]
  /\ calm \in BOOLEAN /\ earned \subseteq Refs /\ before \in Worlds \cup {Unset}

(* If the test passes now, a green line has its key.                       *)
PassKept(green, sc, rv, i, variant) ==
  Outcome[sc][rv][i] => \E g \in green : Key(g) = Key(Ref(rv, i, variant))

(* A run under way: what it has still to do, what it goes by, and, as long  *)
(* as nothing is edited, what it has left in the file.                     *)
TestHolds(t, green, sc) ==
  /\ \A i \in ToSet(t.todo) : i \in DOMAIN Candidates[t.rev]
  /\ t.index \subseteq green
  /\ t.summary.discovered = t.summary.skipped + t.summary.passed + t.summary.failed + Len(t.todo) + t.agents
  /\ t.summary.notRunnable = 0
  /\ t.steady => \A i \in ToSet(Wanted(t.options, t.rev)) :
       i \in ToSet(t.todo) \/ PassKept(green \cup GreenIndex(t.buffer), sc, t.rev, i, t.options.variant)
  /\ (t.steady /\ t.again /\ ~t.options.force) =>
       /\ t.summary.passed = 0
       /\ \A i \in ToSet(t.todo) : PassKept(IF t.pc = "index" THEN green ELSE t.index, sc, t.rev, i, t.options.variant)

DoneHolds(t) ==
  /\ t.summary.discovered = t.summary.skipped + t.summary.passed + t.summary.failed + t.summary.notRunnable
  /\ (t.again /\ ~t.options.force) => t.summary.passed = 0

RunHolds(t, green, ern, sc) ==
  /\ t.pc \in {"index", "tests"} => TestHolds(t, green, sc) /\ GreenIndex(t.buffer) \subseteq ern
  /\ t.pc = "done" => DoneHolds(t)
  /\ t.pc \in {"index", "tests", "done"} => \A s \in t.skips : \E e \in ern : Key(s) = Key(e)

(* What the last complete run saw pass is green, unless something changed. *)
WorldHolds(w, green) ==
  \A i \in ToSet(Wanted(w.options, w.revision)) : PassKept(green, w.scripts, w.revision, i, w.options.variant)

Alone(p) == \A q \in Procs : q # p => ~UnderTest(q)

(* Of a run nobody disturbed, the file and the lines to come can be read.  *)
Orderly(t, f) ==
  /\ t.pc # "raised"
  /\ t.pc \in {"index", "tests"} => Readable(f \o t.buffer) /\ (t.pc = "index" => t.buffer = <<>>)

CalmHolds ==
  calm => /\ \A p \in Procs : Orderly(run[p], file) /\ (UnderTest(p) => Alone(p))
          /\ (\A p \in Procs : ~UnderTest(p)) => Readable(file)

HarnessInv ==
  /\ HarnessTyped
  /\ GreenIndex(file) \subseteq earned
  /\ \A p \in Procs : RunHolds(run[p], GreenIndex(file), earned, scripts)
  /\ before \in Worlds => WorldHolds(before, GreenIndex(file))
  /\ CalmHolds

(* More green lines and more that is earned take nothing away.             *)
LEMMA RunStays ==
  ASSUME NEW t, NEW green, NEW more, green \subseteq more, NEW ern, NEW richer, ern \subseteq richer, NEW sc,
         RunHolds(t, green, ern, sc)
  PROVE  RunHolds(t, more, richer, sc)
<1>1. ASSUME t.pc \in {"index", "tests"} PROVE TestHolds(t, more, sc) /\ GreenIndex(t.buffer) \subseteq richer
  <2>1. TestHolds(t, green, sc) /\ GreenIndex(t.buffer) \subseteq ern
    BY <1>1 DEF RunHolds
  <2>2. t.index \subseteq more
    BY <2>1 DEF TestHolds
  <2>3. ASSUME t.steady, NEW i \in ToSet(Wanted(t.options, t.rev)), i \notin ToSet(t.todo)
        PROVE  PassKept(more \cup GreenIndex(t.buffer), sc, t.rev, i, t.options.variant)
    <3>1. PassKept(green \cup GreenIndex(t.buffer), sc, t.rev, i, t.options.variant)
      BY <2>1, <2>3 DEF TestHolds
    <3> QED BY <3>1 DEF PassKept
  <2>4. ASSUME t.steady /\ t.again /\ ~t.options.force, NEW i \in ToSet(t.todo)
        PROVE  PassKept(IF t.pc = "index" THEN more ELSE t.index, sc, t.rev, i, t.options.variant)
    <3>1. PassKept(IF t.pc = "index" THEN green ELSE t.index, sc, t.rev, i, t.options.variant)
      BY <2>1, <2>4 DEF TestHolds
    <3> QED BY <3>1 DEF PassKept
  <2>5. (t.steady /\ t.again /\ ~t.options.force) => t.summary.passed = 0
    BY <2>1 DEF TestHolds
  <2>6. /\ \A i \in ToSet(t.todo) : i \in DOMAIN Candidates[t.rev]
        /\ t.summary.discovered = t.summary.skipped + t.summary.passed + t.summary.failed + Len(t.todo) + t.agents
        /\ t.summary.notRunnable = 0
    BY <2>1 DEF TestHolds
  <2>7. TestHolds(t, more, sc)
    BY <2>2, <2>3, <2>4, <2>5, <2>6 DEF TestHolds
  <2> QED BY <2>1, <2>7
<1>2. ASSUME t.pc \in {"index", "tests", "done"}, NEW s \in t.skips PROVE \E e \in richer : Key(s) = Key(e)
  BY <1>2 DEF RunHolds
<1>3. t.pc = "done" => DoneHolds(t)
  BY DEF RunHolds
<1> QED BY <1>1, <1>2, <1>3 DEF RunHolds

LEMMA WorldStays ==
  ASSUME NEW w, NEW green, NEW more, green \subseteq more, WorldHolds(w, green)
  PROVE  WorldHolds(w, more)
BY DEF WorldHolds, PassKept

(* A step of one process: what has to be seen of it.                       *)
LEMMA ProcessSteps ==
  ASSUME HarnessInv, NEW p \in Procs, NEW t \in NotRun \cup Testing \cup Ended, run' = [run EXCEPT ![p] = t],
         revision' = revision, scripts' = scripts, file' \in Seq(Lines), earned' \subseteq Refs,
         GreenIndex(file) \subseteq GreenIndex(file'), GreenIndex(file') \subseteq earned', earned \subseteq earned',
         RunHolds(t, GreenIndex(file'), earned', scripts),
         before' = before \/ before' = Unset \/ (before' \in Worlds /\ WorldHolds(before', GreenIndex(file'))),
         calm' \in BOOLEAN,
         calm' => /\ calm /\ Alone(p) /\ Orderly(t, file')
                  /\ t.pc \notin {"index", "tests"} => Readable(file')
  PROVE  HarnessInv'
<1>1. run' \in [Procs -> NotRun \cup Testing \cup Ended] /\ run'[p] = t /\ \A q \in Procs : q # p => run'[q] = run[q]
  BY DEF HarnessInv, HarnessTyped
<1>2. before' \in Worlds \cup {Unset}
  BY DEF HarnessInv, HarnessTyped
<1>3. HarnessTyped'
  BY <1>1, <1>2 DEF HarnessInv, HarnessTyped
<1>4. ASSUME NEW q \in Procs PROVE RunHolds(run'[q], GreenIndex(file'), earned', scripts')
  <2>1. CASE q = p
    BY <1>1, <2>1
  <2>2. CASE q # p
    <3>1. RunHolds(run[q], GreenIndex(file), earned, scripts)
      BY DEF HarnessInv
    <3>2. RunHolds(run[q], GreenIndex(file'), earned', scripts)
      BY <3>1, RunStays
    <3> QED BY <1>1, <2>2, <3>2
  <2> QED BY <2>1, <2>2
<1>5. ASSUME before' \in Worlds PROVE WorldHolds(before', GreenIndex(file'))
  <2>1. CASE before' = before
    <3>1. WorldHolds(before, GreenIndex(file))
      BY <1>5, <2>1 DEF HarnessInv
    <3>2. WorldHolds(before, GreenIndex(file'))
      BY <3>1, WorldStays
    <3> QED BY <2>1, <3>2
  <2>2. CASE before' = Unset
    BY <1>5, <2>2, HarnessAssumption DEF Worlds
  <2> QED BY <2>1, <2>2
<1>6. CalmHolds'
  <2> SUFFICES ASSUME calm'
               PROVE  /\ \A q \in Procs : Orderly(run'[q], file') /\ (UnderTest(q)' => Alone(q)')
                      /\ (\A q \in Procs : ~UnderTest(q)') => Readable(file')
    BY DEF CalmHolds
  <2>1. \A q \in Procs : q # p => UnderTest(q)' = UnderTest(q) /\ ~UnderTest(q)
    BY <1>1 DEF UnderTest, Alone
  <2>2. ASSUME NEW q \in Procs PROVE Orderly(run'[q], file') /\ (UnderTest(q)' => Alone(q)')
    <3>1. CASE q = p
      <4>1. Alone(p)'
        BY <2>1 DEF Alone
      <4> QED BY <1>1, <3>1, <4>1
    <3>2. CASE q # p
      <4>1. Orderly(run[q], file) /\ ~UnderTest(q)
        BY <2>1, <3>2 DEF HarnessInv, CalmHolds
      <4>2. Orderly(run'[q], file')
        BY <1>1, <3>2, <4>1 DEF Orderly, UnderTest
      <4> QED BY <2>1, <3>2, <4>2
    <3> QED BY <3>1, <3>2
  <2>3. ~UnderTest(p)' => Readable(file')
    BY <1>1 DEF UnderTest
  <2> QED BY <2>2, <2>3
<1> QED BY <1>3, <1>4, <1>5, <1>6 DEF HarnessInv

-----------------------------------------------------------------------------
(* Lines and what can be read of them.                                     *)
LEMMA GreenIs == \A T : \A s \in Seq(T) : \A ref :
  ref \in GreenIndex(s) <=> \E i \in 1..Len(s) : s[i].passed /\ s[i].ref = ref
<1> SUFFICES ASSUME NEW T, NEW s \in Seq(T), NEW ref
             PROVE  ref \in GreenIndex(s) <=> \E i \in 1..Len(s) : s[i].passed /\ s[i].ref = ref
  OBVIOUS
<1>1. DOMAIN s = 1..Len(s)
  OBVIOUS
<1> QED BY <1>1 DEF GreenIndex, ToSet

LEMMA GreenJoins == \A T : \A s, t \in Seq(T) : GreenIndex(s \o t) = GreenIndex(s) \cup GreenIndex(t)
<1> SUFFICES ASSUME NEW T, NEW s \in Seq(T), NEW t \in Seq(T) PROVE GreenIndex(s \o t) = GreenIndex(s) \cup GreenIndex(t)
  OBVIOUS
<1>1. PICK u : u = s \o t
  OBVIOUS
<1>2. PICK N \in Nat : N = Len(s)
  OBVIOUS
<1>3. PICK M \in Nat : M = Len(t)
  OBVIOUS
<1>4. u \in Seq(T) /\ Len(u) = N + M /\ \A i \in 1..N + M : u[i] = IF i <= N THEN s[i] ELSE t[i - N]
  BY <1>1, <1>2, <1>3, ConcatProperties
<1>5. ASSUME NEW ref \in GreenIndex(u) PROVE ref \in GreenIndex(s) \cup GreenIndex(t)
  <2>1. PICK i \in 1..N + M : u[i].passed /\ u[i].ref = ref
    BY <1>4, <1>5, GreenIs
  <2>2. CASE i <= N
    <3>1. i \in 1..N /\ u[i] = s[i]
      BY <1>4, <2>2
    <3> QED BY <1>2, <2>1, <3>1, GreenIs
  <2>3. CASE ~(i <= N)
    <3>1. i - N \in 1..M /\ u[i] = t[i - N]
      BY <1>4, <2>3
    <3> QED BY <1>3, <2>1, <3>1, GreenIs
  <2> QED BY <2>2, <2>3
<1>6. ASSUME NEW ref \in GreenIndex(s) PROVE ref \in GreenIndex(u)
  <2>1. PICK i \in 1..N : s[i].passed /\ s[i].ref = ref
    BY <1>2, <1>6, GreenIs
  <2>2. i \in 1..N + M /\ u[i] = s[i]
    BY <1>4
  <2> QED BY <1>4, <2>1, <2>2, GreenIs
<1>7. ASSUME NEW ref \in GreenIndex(t) PROVE ref \in GreenIndex(u)
  <2>1. PICK i \in 1..M : t[i].passed /\ t[i].ref = ref
    BY <1>3, <1>7, GreenIs
  <2>2. i + N \in 1..N + M /\ ~(i + N <= N) /\ (i + N) - N = i
    OBVIOUS
  <2>3. u[i + N] = t[i]
    BY <1>4, <2>2
  <2> QED BY <1>4, <2>1, <2>2, <2>3, GreenIs
<1> QED BY <1>1, <1>5, <1>6, <1>7

LEMMA GreenOfNone == GreenIndex(<<>>) = {}
BY DEF GreenIndex, ToSet

LEMMA GreenOfOne == \A l : GreenIndex(<<l>>) = IF l.passed THEN {l.ref} ELSE {}
<1> SUFFICES ASSUME NEW l PROVE GreenIndex(<<l>>) = IF l.passed THEN {l.ref} ELSE {}
  OBVIOUS
<1>1. ToSet(<<l>>) = {l}
  BY DEF ToSet
<1> QED BY <1>1 DEF GreenIndex

(* What Readable says of one chunk.                                        *)
Reads(w, i) ==
  CASE w[i].part = "whole" -> i = 1 \/ w[i - 1].part # "head"
    [] w[i].part = "head"  -> i < Len(w) /\ Joins(w[i], w[i + 1])
    [] OTHER               -> i > 1 /\ Joins(w[i - 1], w[i])

LEMMA ReadableIs == \A w : Readable(w) <=> \A i \in DOMAIN w : Reads(w, i)
BY DEF Readable, Reads

(* A whole line behind what can be read can be read.                       *)
LEMMA ReadableGrows == \A T : \A s \in Seq(T) : \A l \in T :
  Readable(s) /\ l.part = "whole" => Readable(s \o <<l>>)
<1> SUFFICES ASSUME NEW T, NEW s \in Seq(T), NEW l \in T, Readable(s), l.part = "whole" PROVE Readable(s \o <<l>>)
  OBVIOUS
<1>1. PICK u : u = s \o <<l>>
  OBVIOUS
<1>2. PICK N \in Nat : N = Len(s)
  OBVIOUS
<1>3. Len(u) = N + 1 /\ DOMAIN u = 1..N + 1 /\ DOMAIN s = 1..N /\ u[N + 1] = l /\ \A i \in 1..N : u[i] = s[i]
  BY <1>1, <1>2
<1>4. ASSUME NEW i \in 1..N PROVE Reads(u, i)
  <2>1. Reads(s, i)
    BY <1>3, ReadableIs
  <2>2. u[i] = s[i] /\ (i > 1 => u[i - 1] = s[i - 1]) /\ (i < N => u[i + 1] = s[i + 1])
    BY <1>3
  <2>3. CASE s[i].part = "whole"
    BY <2>1, <2>2, <2>3 DEF Reads
  <2>4. CASE s[i].part = "head"
    BY <1>2, <1>3, <2>1, <2>2, <2>4 DEF Reads
  <2>5. CASE s[i].part \notin {"whole", "head"}
    BY <2>1, <2>2, <2>5 DEF Reads
  <2> QED BY <2>3, <2>4, <2>5
<1>5. N > 0 => s[N].part # "head"
  <2> SUFFICES ASSUME N > 0, s[N].part = "head" PROVE FALSE
    OBVIOUS
  <2>1. Reads(s, N)
    BY <1>3, ReadableIs
  <2>2. N < Len(s)
    BY <2>1 DEF Reads
  <2> QED BY <1>2, <2>2
<1>6. N + 1 = 1 \/ u[(N + 1) - 1].part # "head"
  BY <1>3, <1>5
<1>7. Reads(u, N + 1)
  BY <1>3, <1>6 DEF Reads
<1>8. \A i \in DOMAIN u : Reads(u, i)
  BY <1>3, <1>4, <1>7
<1> QED BY <1>1, <1>8, ReadableIs

HeadOf(l) == [l EXCEPT !.part = "head"]

RestOf(l) == [l EXCEPT !.part = "rest"]

(* A line that comes in two chunks can be read as the line can.            *)
LEMMA ReadableSplits == \A s \in Seq(Lines) : \A l \in Lines :
  Readable(s \o <<l>>) /\ l.part = "whole" => Readable((s \o <<HeadOf(l)>>) \o <<RestOf(l)>>)
<1> SUFFICES ASSUME NEW s \in Seq(Lines), NEW l \in Lines, Readable(s \o <<l>>), l.part = "whole"
             PROVE  Readable((s \o <<HeadOf(l)>>) \o <<RestOf(l)>>)
  OBVIOUS
<1>1. PICK h : h = HeadOf(l)
  OBVIOUS
<1>2. PICK r : r = RestOf(l)
  OBVIOUS
<1>3. h \in Lines /\ r \in Lines /\ h.part = "head" /\ r.part = "rest" /\ Joins(h, r)
  BY <1>1, <1>2 DEF HeadOf, RestOf, Lines, Joins
<1>4. PICK u : u = s \o <<l>>
  OBVIOUS
<1>5. PICK v : v = (s \o <<h>>) \o <<r>>
  OBVIOUS
<1>6. PICK N \in Nat : N = Len(s)
  OBVIOUS
<1>7. Len(u) = N + 1 /\ DOMAIN u = 1..N + 1 /\ u[N + 1] = l /\ \A i \in 1..N : u[i] = s[i]
  BY <1>4, <1>6
<1>8. Len(v) = N + 2 /\ DOMAIN v = 1..N + 2 /\ v[N + 1] = h /\ v[N + 2] = r /\ \A i \in 1..N : v[i] = s[i]
  BY <1>3, <1>5, <1>6
<1>9. \A i \in 1..N + 1 : Reads(u, i)
  BY <1>4, <1>7, ReadableIs
<1>10. N > 0 => u[N].part # "head"
  <2> SUFFICES ASSUME N > 0, u[N].part = "head" PROVE FALSE
    OBVIOUS
  <2>1. Reads(u, N) /\ N \in 1..N + 1
    BY <1>9
  <2>2. Joins(u[N], u[N + 1])
    BY <2>1 DEF Reads
  <2> QED BY <1>7, <2>2 DEF Joins
<1>11. ASSUME NEW i \in 1..N PROVE Reads(v, i)
  <2>1. Reads(u, i)
    BY <1>9
  <2>2. v[i] = u[i] /\ (i > 1 => v[i - 1] = u[i - 1]) /\ (i < N => v[i + 1] = u[i + 1])
    BY <1>7, <1>8
  <2>3. CASE u[i].part = "whole"
    BY <2>1, <2>2, <2>3 DEF Reads
  <2>4. CASE u[i].part = "head"
    <3>1. i < N /\ i < Len(v)
      BY <1>8, <1>10, <2>4
    <3> QED BY <2>1, <2>2, <2>4, <3>1 DEF Reads
  <2>5. CASE u[i].part \notin {"whole", "head"}
    BY <2>1, <2>2, <2>5 DEF Reads
  <2> QED BY <2>3, <2>4, <2>5
<1>12. Reads(v, N + 1)
  <2>1. N + 1 < Len(v) /\ v[(N + 1) + 1] = r /\ v[N + 1] = h
    BY <1>8
  <2> QED BY <1>3, <2>1 DEF Reads
<1>13. Reads(v, N + 2)
  <2>1. N + 2 > 1 /\ v[(N + 2) - 1] = h /\ v[N + 2] = r
    BY <1>8
  <2> QED BY <1>3, <2>1 DEF Reads
<1>14. \A i \in DOMAIN v : Reads(v, i)
  <2> TAKE i \in DOMAIN v
  <2>1. i \in 1..N \/ i = N + 1 \/ i = N + 2
    BY <1>8
  <2> QED BY <1>11, <1>12, <1>13, <2>1
<1> QED BY <1>1, <1>2, <1>5, <1>14, ReadableIs

-----------------------------------------------------------------------------
(* The steps.                                                              *)
LEMMA OutcomeIs == \A s \in DOMAIN Scripts : \A r \in DOMAIN Revisions : \A i \in DOMAIN Candidates[r] :
  Outcome[s][r][i] \in BOOLEAN
<1> SUFFICES ASSUME NEW s \in DOMAIN Scripts, NEW r \in DOMAIN Revisions, NEW i \in DOMAIN Candidates[r]
             PROVE  Outcome[s][r][i] \in BOOLEAN
  OBVIOUS
<1>1. ASSUME NEW c, NEW p, NEW h PROVE Passes(c, p, h) \in BOOLEAN
  <2>1. RunCapability(c.test, Opened(c.target), c.target.definition.declared) \in BOOLEAN
    BY DEF RunCapability
  <2>2. RunTool(c.test, c.target, p, h[c.target.name]) \in BOOLEAN
    BY DEF RunTool
  <2> QED BY <2>1, <2>2 DEF Passes
<1>2. Outcome[s][r][i] = Passes(Candidates[r][i], Revisions[r].profiles, Scripts[s])
  BY DEF Outcome
<1> QED BY <1>1, <1>2

LEMMA WantedAre == \A options \in Options : \A r \in DOMAIN Revisions :
  /\ Wanted(options, r) \in Seq(Nat) /\ Agents(options, r) \in Nat
  /\ \A i \in ToSet(Wanted(options, r)) : i \in DOMAIN Candidates[r]
<1> SUFFICES ASSUME NEW options \in Options, NEW r \in DOMAIN Revisions
             PROVE  /\ Wanted(options, r) \in Seq(Nat) /\ Agents(options, r) \in Nat
                    /\ \A i \in ToSet(Wanted(options, r)) : i \in DOMAIN Candidates[r]
  OBVIOUS
<1>1. PICK I : I = {i \in DOMAIN Candidates[r] : options.kind \in {Unset, Candidates[r][i].kind}}
  OBVIOUS
<1>2. PICK L : L = Len(Candidates[r])
  OBVIOUS
<1>3. L \in Nat /\ DOMAIN Candidates[r] = 1..L /\ IsFiniteSet(DOMAIN Candidates[r])
  <2>1. Candidates[r] \in Seq(Tests)
    BY DiscoveredAre
  <2> QED BY <1>2, <2>1, ListOf
<1>4. I \subseteq DOMAIN Candidates[r] /\ I \subseteq Nat /\ I \subseteq Int /\ IsFiniteSet(I)
  <2>1. I \subseteq DOMAIN Candidates[r]
    BY <1>1
  <2>2. I \subseteq Nat /\ I \subseteq Int
    BY <1>3, <2>1
  <2> QED BY <1>3, <2>1, <2>2, FS_Subset
<1>5. PICK a : a = Arranged(I, Ascending(I))
  OBVIOUS
<1>6. PICK N : N = Cardinality(I)
  OBVIOUS
<1>7. N \in Nat /\ DOMAIN a = 1..N /\ \A n \in 1..N : a[n] \in I
  <2>1. TotallyOrders(I, Ascending(I))
    BY <1>4, AscendingOrders
  <2> QED BY <1>4, <1>5, <1>6, <2>1, ArrangedIs
<1>8. a = [n \in 1..N |-> a[n]]
  BY <1>5, <1>6 DEF Arranged
<1>9. a \in Seq(Nat)
  BY <1>4, <1>7, <1>8
<1>10. \A i \in ToSet(a) : i \in DOMAIN Candidates[r]
  BY <1>4, <1>7 DEF ToSet
<1>11. Wanted(options, r) = a
  BY <1>1, <1>5 DEF Wanted
<1>12. Agents(options, r) \in Nat
  <2>1. Len(Discovered[r].agent) \in Nat
    BY DiscoveredAre
  <2> QED BY <2>1 DEF Agents
<1> QED BY <1>9, <1>10, <1>11, <1>12

LEMMA UnderIs == HarnessTyped => \A p \in Procs :
  /\ run[p] \in NotRun \cup Testing \cup Ended
  /\ UnderTest(p) <=> run[p].pc \in {"index", "tests"}
  /\ UnderTest(p) => run[p] \in Testing
  /\ run[p].pc = "done" => run[p] \in Ended
BY DEF HarnessTyped, UnderTest, NotRun, Testing, Ended

LEMMA HarnessStarts == Init => HarnessInv /\ calls \in Seq(Dispatches)
<1> SUFFICES ASSUME Init PROVE HarnessInv /\ calls \in Seq(Dispatches)
  OBVIOUS
<1>1. run = [p \in Procs |-> [pc |-> "idle"]] /\ file = <<>> /\ earned = {} /\ before = Unset /\ calm = TRUE /\ calls = <<>>
  BY DEF Init
<1>2. HarnessTyped
  <2>1. [pc |-> "idle"] \in NotRun
    BY DEF NotRun
  <2>2. run \in [Procs -> NotRun \cup Testing \cup Ended]
    BY <1>1, <2>1
  <2> QED BY <1>1, <2>2 DEF Init, HarnessTyped
<1>3. \A p \in Procs : run[p].pc = "idle"
  BY <1>1
<1>4. \A p \in Procs : RunHolds(run[p], GreenIndex(file), earned, scripts)
  BY <1>3 DEF RunHolds
<1>5. GreenIndex(file) = {}
  BY <1>1, GreenOfNone
<1>6. before \notin Worlds
  BY <1>1, HarnessAssumption DEF Worlds
<1>7. Readable(file)
  BY <1>1 DEF Readable
<1>8. CalmHolds
  BY <1>3, <1>7 DEF CalmHolds, Orderly, UnderTest
<1> QED BY <1>1, <1>2, <1>4, <1>5, <1>6, <1>8 DEF HarnessInv

LEMMA RevisionEdited == ASSUME HarnessInv, Edit PROVE HarnessInv'
<1>1. /\ revision' \in DOMAIN Revisions /\ scripts' \in DOMAIN Scripts
      /\ before' = Unset /\ file' = file /\ calm' = calm /\ earned' = earned
      /\ run' = [p \in Procs |-> IF UnderTest(p) THEN [run[p] EXCEPT !.steady = FALSE] ELSE run[p]]
  BY DEF Edit, HarnessInv, HarnessTyped
<1>2. ASSUME NEW p \in Procs, UnderTest(p)
      PROVE  /\ run'[p] \in Testing /\ run'[p].steady = FALSE
             /\ run'[p].pc = run[p].pc /\ run'[p].todo = run[p].todo /\ run'[p].rev = run[p].rev /\ run'[p].index = run[p].index
             /\ run'[p].summary = run[p].summary /\ run'[p].agents = run[p].agents /\ run'[p].buffer = run[p].buffer
             /\ run'[p].skips = run[p].skips
  <2>1. run'[p] = [run[p] EXCEPT !.steady = FALSE]
    BY <1>1, <1>2
  <2>2. run[p] \in Testing
    BY <1>2, UnderIs DEF HarnessInv
  <2> QED BY <2>1, <2>2 DEF Testing
<1>3. ASSUME NEW p \in Procs, ~UnderTest(p) PROVE run'[p] = run[p]
  BY <1>1, <1>3
<1>4. HarnessTyped'
  <2>1. run' \in [Procs -> NotRun \cup Testing \cup Ended]
    <3>1. \A p \in Procs : run'[p] \in NotRun \cup Testing \cup Ended
      BY <1>2, <1>3 DEF HarnessInv, HarnessTyped
    <3> QED BY <1>1, <3>1
  <2> QED BY <1>1, <2>1 DEF HarnessInv, HarnessTyped
<1>5. ASSUME NEW p \in Procs PROVE RunHolds(run'[p], GreenIndex(file'), earned', scripts')
  <2>1. RunHolds(run[p], GreenIndex(file), earned, scripts)
    BY DEF HarnessInv
  <2>2. CASE UnderTest(p)
    <3>1. TestHolds(run[p], GreenIndex(file), scripts) /\ GreenIndex(run[p].buffer) \subseteq earned
      BY <2>1, <2>2 DEF RunHolds, UnderTest
    <3>2. TestHolds(run'[p], GreenIndex(file), scripts')
      BY <1>2, <2>2, <3>1 DEF TestHolds
    <3>3. \A s \in run'[p].skips : \E e \in earned : Key(s) = Key(e)
      BY <1>2, <2>1, <2>2 DEF RunHolds, UnderTest
    <3>4. run'[p].pc # "done"
      BY <1>2, <2>2 DEF UnderTest
    <3> QED BY <1>1, <1>2, <2>2, <3>1, <3>2, <3>3, <3>4 DEF RunHolds
  <2>3. CASE ~UnderTest(p)
    BY <1>1, <1>3, <2>1, <2>3 DEF RunHolds, UnderTest
  <2> QED BY <2>2, <2>3
<1>6. before' \notin Worlds
  BY <1>1, HarnessAssumption DEF Worlds
<1>7. CalmHolds'
  <2>1. ASSUME NEW p \in Procs PROVE UnderTest(p)' = UnderTest(p) /\ run'[p].pc = run[p].pc /\ (UnderTest(p) => run'[p].buffer = run[p].buffer)
    BY <1>2, <1>3 DEF UnderTest
  <2>2. \A p \in Procs : Alone(p) => Alone(p)'
    BY <2>1 DEF Alone
  <2>3. \A p \in Procs : Orderly(run[p], file) => Orderly(run'[p], file)
    BY <2>1 DEF Orderly, UnderTest
  <2> QED BY <1>1, <2>1, <2>2, <2>3 DEF HarnessInv, CalmHolds
<1>8. GreenIndex(file') \subseteq earned'
  BY <1>1 DEF HarnessInv
<1>9. \A p \in Procs : RunHolds(run'[p], GreenIndex(file'), earned', scripts')
  BY <1>5
<1>10. before' \in Worlds => WorldHolds(before', GreenIndex(file'))
  BY <1>6
<1> QED BY <1>4, <1>7, <1>8, <1>9, <1>10 DEF HarnessInv

LEMMA BeginHolds == ASSUME HarnessInv, NEW p \in Procs, Begin(p) PROVE HarnessInv'
<1>1. PICK options \in Options : run' = [run EXCEPT ![p] =
             [pc |-> "index", options |-> options, rev |-> revision, todo |-> Wanted(options, revision), agents |-> Agents(options, revision),
              index |-> {}, buffer |-> <<>>, skips |-> {}, steady |-> TRUE,
              again |-> before = [revision |-> revision, scripts |-> scripts, options |-> options],
              summary |-> [discovered |-> Len(Wanted(options, revision)) + Agents(options, revision),
                           skipped |-> 0, passed |-> 0, failed |-> 0, notRunnable |-> 0]]]
  BY DEF Begin
<1>2. /\ calm' = (calm /\ \A q \in Procs : ~UnderTest(q))
      /\ revision' = revision /\ scripts' = scripts /\ file' = file /\ earned' = earned /\ before' = before
  BY DEF Begin
<1>3. PICK todo : todo = Wanted(options, revision)
  OBVIOUS
<1>4. PICK agents : agents = Agents(options, revision)
  OBVIOUS
<1>5. todo \in Seq(Nat) /\ agents \in Nat /\ \A i \in ToSet(todo) : i \in DOMAIN Candidates[revision]
  BY <1>3, <1>4, WantedAre DEF HarnessInv, HarnessTyped
<1>6. PICK w : w = [revision |-> revision, scripts |-> scripts, options |-> options]
  OBVIOUS
<1>7. PICK t : t = [pc |-> "index", options |-> options, rev |-> revision, todo |-> todo, agents |-> agents,
                    index |-> {}, buffer |-> <<>>, skips |-> {}, steady |-> TRUE, again |-> before = w,
                    summary |-> [discovered |-> Len(todo) + agents, skipped |-> 0, passed |-> 0, failed |-> 0, notRunnable |-> 0]]
  OBVIOUS
<1>8. run' = [run EXCEPT ![p] = t]
  BY <1>1, <1>3, <1>4, <1>6, <1>7
<1>9. Len(todo) \in Nat
  BY <1>5
<1>10. t \in Testing
  BY <1>5, <1>7, <1>9 DEF Testing, Tallies, HarnessInv, HarnessTyped
<1>11. GreenIndex(t.buffer) = {}
  BY <1>7, GreenOfNone
<1>12. TestHolds(t, GreenIndex(file), scripts)
  <2>1. t.summary.discovered = t.summary.skipped + t.summary.passed + t.summary.failed + Len(t.todo) + t.agents
    BY <1>5, <1>7, <1>9
  <2>2. ASSUME t.again, NEW i \in ToSet(t.todo) PROVE PassKept(GreenIndex(file), scripts, t.rev, i, t.options.variant)
    <3>1. before = w /\ w \in Worlds
      BY <1>6, <1>7, <2>2 DEF Worlds, HarnessInv, HarnessTyped
    <3>2. WorldHolds(w, GreenIndex(file))
      BY <3>1 DEF HarnessInv
    <3>3. w.options = options /\ w.revision = revision /\ w.scripts = scripts /\ t.rev = revision /\ t.options = options
      BY <1>6, <1>7
    <3>4. i \in ToSet(Wanted(w.options, w.revision))
      BY <1>3, <1>7, <2>2, <3>3
    <3>5. PassKept(GreenIndex(file), w.scripts, w.revision, i, w.options.variant)
      BY <3>2, <3>4 DEF WorldHolds
    <3> QED BY <3>3, <3>5
  <2>3. /\ t.pc = "index" /\ t.todo = todo /\ t.rev = revision /\ t.options = options /\ t.index = {}
        /\ t.summary.notRunnable = 0 /\ t.summary.passed = 0
    BY <1>7
  <2>4. \A i \in ToSet(Wanted(t.options, t.rev)) : i \in ToSet(t.todo)
    BY <1>3, <2>3
  <2> HIDE <1>7
  <2> QED BY <1>5, <2>1, <2>2, <2>3, <2>4 DEF TestHolds
<1>13. RunHolds(t, GreenIndex(file), earned, scripts)
  <2>1. t.pc = "index" /\ t.skips = {}
    BY <1>7
  <2> QED BY <1>11, <1>12, <2>1 DEF RunHolds
<1>14. ASSUME calm' PROVE calm /\ Alone(p) /\ Orderly(t, file')
  <2>1. Readable(file)
    BY <1>2, <1>14 DEF HarnessInv, CalmHolds
  <2>2. t.pc = "index" /\ t.buffer = <<>>
    BY <1>7
  <2>3. file \o <<>> = file
    BY ConcatEmptySeq DEF HarnessInv, HarnessTyped
  <2>4. Orderly(t, file)
    BY <2>1, <2>2, <2>3 DEF Orderly
  <2> QED BY <1>2, <1>14, <2>4 DEF Alone
<1>15. t.pc \in {"index", "tests"}
  BY <1>7
<1>16. /\ file' \in Seq(Lines) /\ earned' \subseteq Refs /\ GreenIndex(file') \subseteq earned' /\ calm' \in BOOLEAN
       /\ GreenIndex(file) \subseteq GreenIndex(file') /\ earned \subseteq earned'
  BY <1>2 DEF HarnessInv, HarnessTyped
<1>17. RunHolds(t, GreenIndex(file'), earned', scripts)
  BY <1>2, <1>13
<1> QED BY <1>2, <1>8, <1>10, <1>14, <1>15, <1>16, <1>17, ProcessSteps

LEMMA ReadIndexHolds == ASSUME HarnessInv, NEW p \in Procs, ReadIndex(p) PROVE HarnessInv'
<1>1. /\ run[p].pc = "index" /\ UnderTest(p) /\ run[p] \in Testing
      /\ revision' = revision /\ scripts' = scripts /\ file' = file /\ earned' = earned /\ before' = before /\ calm' = calm
  BY UnderIs DEF HarnessInv, ReadIndex, UnderTest
<1>2. /\ file' \in Seq(Lines) /\ earned' \subseteq Refs /\ GreenIndex(file') \subseteq earned' /\ calm' \in BOOLEAN
      /\ GreenIndex(file) \subseteq GreenIndex(file') /\ earned \subseteq earned' /\ GreenIndex(file) \subseteq Refs
  BY <1>1 DEF HarnessInv, HarnessTyped
<1>3. calm => Alone(p) /\ Orderly(run[p], file) /\ Readable(file)
  <2> SUFFICES ASSUME calm PROVE Alone(p) /\ Orderly(run[p], file) /\ Readable(file)
    OBVIOUS
  <2>1. Alone(p) /\ Orderly(run[p], file)
    BY <1>1 DEF HarnessInv, CalmHolds
  <2>2. file \o <<>> = file
    BY ConcatEmptySeq DEF HarnessInv, HarnessTyped
  <2> QED BY <1>1, <2>1, <2>2 DEF Orderly
<1>4. CASE Readable(file)
  <2>1. PICK t : t = [run[p] EXCEPT !.pc = "tests", !.index = GreenIndex(file)]
    OBVIOUS
  <2>2. run' = [run EXCEPT ![p] = t]
    BY <1>4, <2>1 DEF ReadIndex
  <2>3. /\ t \in Testing /\ t.pc = "tests" /\ t.index = GreenIndex(file)
        /\ t.options = run[p].options /\ t.rev = run[p].rev /\ t.todo = run[p].todo /\ t.agents = run[p].agents
        /\ t.buffer = run[p].buffer /\ t.skips = run[p].skips /\ t.steady = run[p].steady /\ t.again = run[p].again
        /\ t.summary = run[p].summary
    BY <1>1, <1>2, <2>1 DEF Testing
  <2>4. TestHolds(run[p], GreenIndex(file), scripts) /\ GreenIndex(run[p].buffer) \subseteq earned
        /\ \A s \in run[p].skips : \E e \in earned : Key(s) = Key(e)
    BY <1>1 DEF HarnessInv, RunHolds
  <2>5. TestHolds(t, GreenIndex(file), scripts)
    BY <1>1, <2>3, <2>4 DEF TestHolds
  <2>6. RunHolds(t, GreenIndex(file'), earned', scripts)
    BY <1>1, <2>3, <2>4, <2>5 DEF RunHolds
  <2>7. calm => Orderly(t, file')
    BY <1>1, <1>3, <2>3 DEF Orderly
  <2> QED BY <1>1, <1>2, <1>3, <2>2, <2>3, <2>6, <2>7, ProcessSteps
<1>5. CASE ~Readable(file)
  <2>1. PICK t : t = [pc |-> "raised"]
    OBVIOUS
  <2>2. run' = [run EXCEPT ![p] = t]
    BY <1>5, <2>1 DEF ReadIndex
  <2>3. t \in NotRun /\ t.pc = "raised"
    BY <2>1 DEF NotRun
  <2>4. RunHolds(t, GreenIndex(file'), earned', scripts)
    BY <2>3 DEF RunHolds
  <2>5. ~calm'
    BY <1>1, <1>3, <1>5
  <2> QED BY <1>1, <1>2, <2>2, <2>3, <2>4, <2>5, ProcessSteps
<1> QED BY <1>4, <1>5

LEMMA DieHolds == ASSUME HarnessInv, NEW p \in Procs, Die(p) PROVE HarnessInv'
<1>1. PICK t : t = [pc |-> "idle"]
  OBVIOUS
<1>2. /\ run' = [run EXCEPT ![p] = t] /\ calm' = FALSE
      /\ revision' = revision /\ scripts' = scripts /\ file' = file /\ earned' = earned /\ before' = before
  BY <1>1 DEF Die
<1>3. t \in NotRun /\ t.pc = "idle"
  BY <1>1 DEF NotRun
<1>4. RunHolds(t, GreenIndex(file'), earned', scripts)
  BY <1>3 DEF RunHolds
<1>5. /\ file' \in Seq(Lines) /\ earned' \subseteq Refs /\ GreenIndex(file') \subseteq earned' /\ calm' \in BOOLEAN
      /\ GreenIndex(file) \subseteq GreenIndex(file') /\ earned \subseteq earned'
  BY <1>2 DEF HarnessInv, HarnessTyped
<1> QED BY <1>2, <1>3, <1>4, <1>5, ProcessSteps

(* One test less to run.                                                   *)
LEMMA TakenIs ==
  ASSUME NEW todo \in Seq(Nat), todo # <<>>
  PROVE  /\ Tail(todo) \in Seq(Nat) /\ Len(Tail(todo)) \in Nat /\ Len(todo) = Len(Tail(todo)) + 1
         /\ ToSet(todo) = {Head(todo)} \cup ToSet(Tail(todo))
<1>1. PICK rest : rest = Tail(todo)
  OBVIOUS
<1>2. PICK N \in Nat : N = Len(todo)
  OBVIOUS
<1>3. rest \in Seq(Nat) /\ Len(rest) = N - 1 /\ \A i \in 1..Len(rest) : rest[i] = todo[i + 1]
  BY <1>1, <1>2, HeadTailProperties
<1>4. N \in Nat \ {0}
  BY <1>2, EmptySeq
<1>5. DOMAIN todo = 1..N /\ DOMAIN rest = 1..N - 1 /\ Len(rest) = N - 1 /\ N - 1 \in Nat
  BY <1>2, <1>3, <1>4
<1>6. Head(todo) = todo[1] /\ 1 \in 1..N
  BY <1>4
<1>7. ASSUME NEW x \in ToSet(todo) PROVE x \in {Head(todo)} \cup ToSet(rest)
  <2>1. PICK i \in 1..N : x = todo[i]
    BY <1>5, <1>7 DEF ToSet
  <2>2. CASE i = 1
    BY <1>6, <2>1, <2>2
  <2>3. CASE i # 1
    <3>1. i - 1 \in 1..N - 1 /\ (i - 1) + 1 = i
      BY <1>4, <2>3
    <3>2. rest[i - 1] = x
      BY <1>3, <1>5, <2>1, <3>1
    <3> QED BY <1>5, <3>1, <3>2 DEF ToSet
  <2> QED BY <2>2, <2>3
<1>8. ASSUME NEW x \in ToSet(rest) PROVE x \in ToSet(todo)
  <2>1. PICK i \in 1..N - 1 : x = rest[i]
    BY <1>5, <1>8 DEF ToSet
  <2>2. i + 1 \in 1..N /\ todo[i + 1] = x
    BY <1>3, <1>5, <2>1
  <2> QED BY <1>5, <2>2 DEF ToSet
<1>9. Head(todo) \in ToSet(todo)
  BY <1>5, <1>6 DEF ToSet
<1>10. ToSet(todo) = {Head(todo)} \cup ToSet(rest)
  BY <1>7, <1>8, <1>9
<1>11. Len(rest) \in Nat /\ Len(todo) = Len(rest) + 1
  BY <1>2, <1>4, <1>5
<1> QED BY <1>1, <1>3, <1>10, <1>11

(* A test that was run, or skipped, leaves the run as it should be.        *)
TestRan(u, t, green, sc, i) ==
  /\ u.pc = "tests" /\ t.pc = "tests"
  /\ t.rev = u.rev /\ t.index = u.index /\ t.agents = u.agents /\ t.options = u.options /\ t.steady = u.steady
  /\ t.again = u.again /\ ToSet(u.todo) = {i} \cup ToSet(t.todo)
  /\ t.summary.discovered = t.summary.skipped + t.summary.passed + t.summary.failed + Len(t.todo) + t.agents
  /\ t.summary.notRunnable = 0
  /\ GreenIndex(u.buffer) \subseteq GreenIndex(t.buffer)
  /\ PassKept(green \cup GreenIndex(t.buffer), sc, u.rev, i, u.options.variant)
  /\ (~u.options.force /\ PassKept(u.index, sc, u.rev, i, u.options.variant)) => t.summary.passed = u.summary.passed

LEMMA TestGoes ==
  ASSUME NEW u, NEW t, NEW green, NEW sc, NEW i, TestHolds(u, green, sc), TestRan(u, t, green, sc, i)
  PROVE  TestHolds(t, green, sc)
<1> USE DEF TestRan
<1>1. (\A j \in ToSet(t.todo) : j \in DOMAIN Candidates[t.rev]) /\ t.index \subseteq green
  BY DEF TestHolds
<1>2. ASSUME t.steady, NEW j \in ToSet(Wanted(t.options, t.rev)), j \notin ToSet(t.todo)
      PROVE  PassKept(green \cup GreenIndex(t.buffer), sc, t.rev, j, t.options.variant)
  <2>1. CASE j = i
    BY <2>1
  <2>2. CASE j # i
    <3>1. j \notin ToSet(u.todo)
      BY <1>2, <2>2
    <3>2. PassKept(green \cup GreenIndex(u.buffer), sc, u.rev, j, u.options.variant)
      BY <1>2, <3>1 DEF TestHolds
    <3> QED BY <3>2 DEF PassKept
  <2> QED BY <2>1, <2>2
<1>3. ASSUME t.steady /\ t.again /\ ~t.options.force
      PROVE  /\ t.summary.passed = 0
             /\ \A j \in ToSet(t.todo) : PassKept(t.index, sc, t.rev, j, t.options.variant)
  <2>1. u.summary.passed = 0 /\ \A j \in ToSet(u.todo) : PassKept(u.index, sc, u.rev, j, u.options.variant)
    BY <1>3 DEF TestHolds
  <2> QED BY <1>3, <2>1
<1>4. \A j \in ToSet(t.todo) : (t.steady /\ t.again /\ ~t.options.force) =>
        PassKept(IF t.pc = "index" THEN green ELSE t.index, sc, t.rev, j, t.options.variant)
  BY <1>3
<1> QED BY <1>1, <1>2, <1>3, <1>4 DEF TestHolds

LEMMA SumGoes ==
  ASSUME NEW u \in Testing, NEW rest, Len(rest) \in Nat, Len(u.todo) = Len(rest) + 1,
         u.summary.discovered = u.summary.skipped + u.summary.passed + u.summary.failed + Len(u.todo) + u.agents
  PROVE  /\ u.summary.discovered = (u.summary.skipped + 1) + u.summary.passed + u.summary.failed + Len(rest) + u.agents
         /\ u.summary.discovered = u.summary.skipped + (u.summary.passed + 1) + u.summary.failed + Len(rest) + u.agents
         /\ u.summary.discovered = u.summary.skipped + u.summary.passed + (u.summary.failed + 1) + Len(rest) + u.agents
<1>1. u.summary \in Tallies /\ u.agents \in Nat
  BY DEF Testing
<1>2. PICK a \in Nat : a = u.summary.skipped
  BY <1>1 DEF Tallies
<1>3. PICK b \in Nat : b = u.summary.passed
  BY <1>1 DEF Tallies
<1>4. PICK c \in Nat : c = u.summary.failed
  BY <1>1 DEF Tallies
<1>5. PICK m \in Nat : m = Len(rest)
  OBVIOUS
<1>6. PICK e \in Nat : e = u.agents
  BY <1>1
<1>7. PICK d : d = u.summary.discovered
  OBVIOUS
<1>8. d = a + b + c + (m + 1) + e
  BY <1>2, <1>3, <1>4, <1>5, <1>6, <1>7
<1>9. d = (a + 1) + b + c + m + e /\ d = a + (b + 1) + c + m + e /\ d = a + b + (c + 1) + m + e
  BY <1>8
<1> QED BY <1>2, <1>3, <1>4, <1>5, <1>6, <1>7, <1>9

(* What a run is about to do, and what is known of it.                     *)
TestTaken(p, u, i, rest, ref, ok) ==
  /\ u = run[p] /\ u \in Testing /\ u.pc = "tests" /\ UnderTest(p)
  /\ i = Head(u.todo) /\ rest = Tail(u.todo) /\ ref = Ref(u.rev, i, u.options.variant) /\ ok = Outcome[scripts][u.rev][i]
  /\ rest \in Seq(Nat) /\ Len(rest) \in Nat /\ Len(u.todo) = Len(rest) + 1 /\ ToSet(u.todo) = {i} \cup ToSet(rest)
  /\ ref \in Refs /\ ok \in BOOLEAN
  /\ TestHolds(u, GreenIndex(file), scripts) /\ GreenIndex(u.buffer) \subseteq earned
  /\ \A s \in u.skips : \E e \in earned : Key(s) = Key(e)

LEMMA TakesTest == ASSUME HarnessInv, NEW p \in Procs, run[p].pc = "tests", run[p].todo # <<>>
  PROVE  \E u, i, rest, ref, ok : TestTaken(p, u, i, rest, ref, ok)
<1>1. PICK u : u = run[p]
  OBVIOUS
<1>2. u \in Testing /\ UnderTest(p)
  BY <1>1, UnderIs DEF HarnessInv, UnderTest
<1>3. TestHolds(u, GreenIndex(file), scripts) /\ GreenIndex(u.buffer) \subseteq earned
      /\ \A s \in u.skips : \E e \in earned : Key(s) = Key(e)
  BY <1>1 DEF HarnessInv, RunHolds
<1>4. u.todo \in Seq(Nat) /\ u.todo # <<>> /\ u.rev \in DOMAIN Revisions /\ u.options \in Options
  BY <1>1, <1>2 DEF Testing
<1>5. PICK i : i = Head(u.todo)
  OBVIOUS
<1>6. PICK rest : rest = Tail(u.todo)
  OBVIOUS
<1>7. rest \in Seq(Nat) /\ Len(rest) \in Nat /\ Len(u.todo) = Len(rest) + 1 /\ ToSet(u.todo) = {i} \cup ToSet(rest)
  BY <1>4, <1>5, <1>6, TakenIs
<1>8. PICK ref : ref = Ref(u.rev, i, u.options.variant)
  OBVIOUS
<1>9. PICK ok : ok = Outcome[scripts][u.rev][i]
  OBVIOUS
<1>10. i \in DOMAIN Candidates[u.rev]
  BY <1>3, <1>7 DEF TestHolds
<1>11. i \in Nat
  BY <1>4, <1>5, HeadTailProperties
<1>12. ref = <<u.rev, i, u.options.variant>>
  BY <1>8 DEF Ref
<1>13. ref \in (DOMAIN Revisions) \X Nat \X {o.variant : o \in Options}
  BY <1>4, <1>11, <1>12
<1>14. ref[1] = u.rev /\ ref[2] = i
  BY <1>12
<1>15. ref \in Refs
  BY <1>10, <1>13, <1>14 DEF Refs
<1>16. ok \in BOOLEAN
  BY <1>4, <1>9, <1>10, OutcomeIs DEF HarnessInv, HarnessTyped
<1>17. TestTaken(p, u, i, rest, ref, ok)
  BY <1>1, <1>2, <1>3, <1>5, <1>6, <1>7, <1>8, <1>9, <1>15, <1>16 DEF TestTaken
<1> QED BY <1>17

TestSkipped(u, rest, ref) == [u EXCEPT !.todo = rest, !.summary.skipped = @ + 1, !.skips = @ \cup {ref}]

TestRecorded(u, rest, sum, l) == [u EXCEPT !.todo = rest, !.summary = sum, !.buffer = Append(u.buffer, l)]

Counted(u, sum, ok) ==
  /\ sum \in Tallies /\ sum.discovered = u.summary.discovered /\ sum.notRunnable = u.summary.notRunnable
  /\ sum.skipped = u.summary.skipped
  /\ IF ok THEN sum.passed = u.summary.passed + 1 /\ sum.failed = u.summary.failed
           ELSE sum.failed = u.summary.failed + 1 /\ sum.passed = u.summary.passed

TestStep == revision' = revision /\ scripts' = scripts /\ file' = file /\ calm' = calm /\ before' = before

(* A green test is skipped.                                                *)
LEMMA SkipHolds ==
  ASSUME HarnessInv, NEW p \in Procs, NEW u, NEW i, NEW rest, NEW ref, NEW ok, TestTaken(p, u, i, rest, ref, ok),
         Green(p, ref), run' = [run EXCEPT ![p] = TestSkipped(u, rest, ref)], TestStep, earned' = earned
  PROVE  HarnessInv'
<1>0. PICK t : t = TestSkipped(u, rest, ref)
  OBVIOUS
<1>s. /\ revision' = revision /\ scripts' = scripts /\ file' = file /\ calm' = calm /\ before' = before
      /\ run' = [run EXCEPT ![p] = t]
  BY <1>0 DEF TestStep
<1>1. u \in Testing /\ rest \in Seq(Nat) /\ ref \in Refs
  BY DEF TestTaken
<1>2. PICK sum : sum = [u.summary EXCEPT !.skipped = @ + 1]
  OBVIOUS
<1>3. u.summary \in Tallies
  BY <1>1 DEF Testing
<1>4. /\ sum \in Tallies /\ sum.skipped = u.summary.skipped + 1 /\ sum.passed = u.summary.passed
      /\ sum.failed = u.summary.failed /\ sum.discovered = u.summary.discovered /\ sum.notRunnable = u.summary.notRunnable
  BY <1>2, <1>3 DEF Tallies
<1>5. t = [u EXCEPT !.todo = rest, !.summary = sum, !.skips = u.skips \cup {ref}]
  BY <1>0, <1>1, <1>2 DEF Testing, TestSkipped
<1>6. t \in Testing
  <2>1. u.skips \cup {ref} \in SUBSET Refs
    BY <1>1 DEF Testing
  <2>2. PICK skips : skips = u.skips \cup {ref}
    OBVIOUS
  <2>3. t = [u EXCEPT !.todo = rest, !.summary = sum, !.skips = skips]
    BY <1>5, <2>2
  <2> QED BY <1>1, <1>4, <2>1, <2>2, <2>3 DEF Testing
<1>7. /\ t.pc = u.pc /\ t.todo = rest /\ t.rev = u.rev /\ t.index = u.index /\ t.agents = u.agents /\ t.options = u.options
      /\ t.steady = u.steady /\ t.again = u.again /\ t.buffer = u.buffer /\ t.summary = sum /\ t.skips = u.skips \cup {ref}
  BY <1>1, <1>5 DEF Testing
<1>8. PICK g \in u.index : Key(g) = Key(ref)
  BY DEF Green, TestTaken
<1>9. g \in GreenIndex(file) /\ g \in earned
  BY <1>8 DEF TestTaken, TestHolds, HarnessInv
<1>10. PassKept(GreenIndex(file) \cup GreenIndex(t.buffer), scripts, u.rev, i, u.options.variant)
  BY <1>8, <1>9 DEF PassKept, TestTaken
<1>11. t.summary.discovered = t.summary.skipped + t.summary.passed + t.summary.failed + Len(t.todo) + t.agents
       /\ t.summary.notRunnable = 0
  <2>1. u.summary.discovered = u.summary.skipped + u.summary.passed + u.summary.failed + Len(u.todo) + u.agents
        /\ u.summary.notRunnable = 0 /\ Len(u.todo) = Len(rest) + 1 /\ Len(rest) \in Nat
    BY DEF TestTaken, TestHolds
  <2>3. u.summary.discovered = (u.summary.skipped + 1) + u.summary.passed + u.summary.failed + Len(rest) + u.agents
    BY <1>1, <2>1, SumGoes
  <2> QED BY <1>4, <1>7, <2>1, <2>3
<1>12. TestHolds(t, GreenIndex(file), scripts)
  <2>1. TestHolds(u, GreenIndex(file), scripts) /\ u.pc = "tests" /\ ToSet(u.todo) = {i} \cup ToSet(t.todo)
    BY <1>7 DEF TestTaken
  <2>2. GreenIndex(u.buffer) \subseteq GreenIndex(t.buffer) /\ t.summary.passed = u.summary.passed
    BY <1>4, <1>7
  <2>3. TestRan(u, t, GreenIndex(file), scripts, i)
    BY <1>7, <1>10, <1>11, <2>1, <2>2 DEF TestRan
  <2> QED BY <2>1, <2>3, TestGoes
<1>13. \A s \in t.skips : \E e \in earned : Key(s) = Key(e)
  BY <1>7, <1>8, <1>9 DEF TestTaken
<1>14. RunHolds(t, GreenIndex(file'), earned', scripts)
  <2>1. t.pc = "tests" /\ GreenIndex(t.buffer) \subseteq earned
    BY <1>7 DEF TestTaken
  <2> QED BY <1>s, <1>12, <1>13, <2>1 DEF RunHolds
<1>15. calm' => calm /\ Alone(p) /\ Orderly(t, file') /\ t.pc \in {"index", "tests"}
  BY <1>s, <1>7 DEF HarnessInv, CalmHolds, TestTaken, Orderly
<1>16. /\ file' \in Seq(Lines) /\ earned' \subseteq Refs /\ GreenIndex(file') \subseteq earned' /\ calm' \in BOOLEAN
       /\ GreenIndex(file) \subseteq GreenIndex(file') /\ earned \subseteq earned'
  BY <1>s DEF HarnessInv, HarnessTyped
<1> QED BY <1>s, <1>6, <1>14, <1>15, <1>16, ProcessSteps

(* A test is recorded, as passed or as failed.                             *)
LEMMA RecordHolds ==
  ASSUME HarnessInv, NEW p \in Procs, NEW u, NEW i, NEW rest, NEW ref, NEW ok, TestTaken(p, u, i, rest, ref, ok),
         ~Green(p, ref), NEW sum, Counted(u, sum, ok), TestStep,
         run' = [run EXCEPT ![p] = TestRecorded(u, rest, sum, Line(p, ref, ok, "whole"))],
         earned' = earned \cup (IF ok THEN {ref} ELSE {})
  PROVE  HarnessInv'
<1>0. PICK l : l = Line(p, ref, ok, "whole")
  OBVIOUS
<1>00. PICK t : t = TestRecorded(u, rest, sum, l)
  OBVIOUS
<1>s. /\ revision' = revision /\ scripts' = scripts /\ file' = file /\ calm' = calm /\ before' = before
      /\ run' = [run EXCEPT ![p] = t]
  BY <1>0, <1>00 DEF TestStep
<1>1. u \in Testing /\ rest \in Seq(Nat) /\ ref \in Refs /\ ok \in BOOLEAN /\ u.buffer \in Seq(Lines) /\ u.pc = "tests"
  BY DEF TestTaken, Testing
<1>2. l \in Lines /\ l.part = "whole" /\ l.ref = ref /\ l.passed = ok
  BY <1>0, <1>1 DEF Line, Lines
<1>3. PICK b : b = Append(u.buffer, l)
  OBVIOUS
<1>4. b \in Seq(Lines) /\ b = u.buffer \o <<l>> /\ <<l>> \in Seq(Lines)
  BY <1>1, <1>2, <1>3, AppendProperties, AppendIsConcat
<1>5. GreenIndex(b) = GreenIndex(u.buffer) \cup (IF ok THEN {ref} ELSE {})
  <2>1. GreenIndex(b) = GreenIndex(u.buffer) \cup GreenIndex(<<l>>)
    <3>1. PICK w \in Seq(Lines) : w = <<l>>
      BY <1>4
    <3>2. PICK v \in Seq(Lines) : v = u.buffer
      BY <1>1
    <3>3. GreenIndex(v \o w) = GreenIndex(v) \cup GreenIndex(w)
      BY GreenJoins
    <3> QED BY <1>4, <3>1, <3>2, <3>3
  <2> QED BY <1>2, <2>1, GreenOfOne
<1>6. t = [u EXCEPT !.todo = rest, !.summary = sum, !.buffer = b] /\ t \in Testing
  <2>1. t = [u EXCEPT !.todo = rest, !.summary = sum, !.buffer = b] /\ sum \in Tallies
    BY <1>3, <1>00 DEF TestRecorded, Counted
  <2> QED BY <1>1, <1>4, <2>1 DEF Testing
<1>7. /\ t.pc = u.pc /\ t.todo = rest /\ t.rev = u.rev /\ t.index = u.index /\ t.agents = u.agents /\ t.options = u.options
      /\ t.steady = u.steady /\ t.again = u.again /\ t.buffer = b /\ t.summary = sum /\ t.skips = u.skips
  BY <1>1, <1>6 DEF Testing
<1>8. PassKept(GreenIndex(file) \cup GreenIndex(t.buffer), scripts, u.rev, i, u.options.variant)
  <2>1. ok => ref \in GreenIndex(t.buffer)
    BY <1>5, <1>7
  <2> QED BY <2>1 DEF PassKept, TestTaken
<1>9. (~u.options.force /\ PassKept(u.index, scripts, u.rev, i, u.options.variant)) => t.summary.passed = u.summary.passed
  <2> SUFFICES ASSUME ~u.options.force, PassKept(u.index, scripts, u.rev, i, u.options.variant)
               PROVE  t.summary.passed = u.summary.passed
    OBVIOUS
  <2>1. ~\E g \in u.index : Key(g) = Key(ref)
    BY DEF Green, TestTaken
  <2>2. ~ok
    BY <2>1 DEF PassKept, TestTaken
  <2> QED BY <1>7, <2>2 DEF Counted
<1>10. t.summary.discovered = t.summary.skipped + t.summary.passed + t.summary.failed + Len(t.todo) + t.agents
       /\ t.summary.notRunnable = 0
  <2>1. u.summary.discovered = u.summary.skipped + u.summary.passed + u.summary.failed + Len(u.todo) + u.agents
        /\ u.summary.notRunnable = 0 /\ Len(u.todo) = Len(rest) + 1 /\ Len(rest) \in Nat
    BY DEF TestTaken, TestHolds
  <2>3. CASE ok
    <3>1. u.summary.discovered = u.summary.skipped + (u.summary.passed + 1) + u.summary.failed + Len(rest) + u.agents
      BY <1>1, <2>1, SumGoes
    <3> QED BY <1>7, <2>1, <2>3, <3>1 DEF Counted
  <2>4. CASE ~ok
    <3>1. u.summary.discovered = u.summary.skipped + u.summary.passed + (u.summary.failed + 1) + Len(rest) + u.agents
      BY <1>1, <2>1, SumGoes
    <3> QED BY <1>7, <2>1, <2>4, <3>1 DEF Counted
  <2> QED BY <2>3, <2>4
<1>11. TestHolds(t, GreenIndex(file), scripts)
  <2>1. TestHolds(u, GreenIndex(file), scripts) /\ u.pc = "tests" /\ ToSet(u.todo) = {i} \cup ToSet(t.todo)
    BY <1>7 DEF TestTaken
  <2>2. GreenIndex(u.buffer) \subseteq GreenIndex(t.buffer)
    BY <1>5, <1>7
  <2>3. TestRan(u, t, GreenIndex(file), scripts, i)
    BY <1>7, <1>8, <1>9, <1>10, <2>1, <2>2 DEF TestRan
  <2> QED BY <2>1, <2>3, TestGoes
<1>12. GreenIndex(t.buffer) \subseteq earned' /\ earned \subseteq earned' /\ earned' \subseteq Refs
  BY <1>1, <1>5, <1>7 DEF TestTaken, HarnessInv, HarnessTyped
<1>13. RunHolds(t, GreenIndex(file'), earned', scripts)
  <2>1. \A s \in t.skips : \E e \in earned' : Key(s) = Key(e)
    BY <1>7, <1>12 DEF TestTaken
  <2> QED BY <1>s, <1>1, <1>7, <1>11, <1>12, <2>1 DEF RunHolds
<1>14. ASSUME calm' PROVE calm /\ Alone(p) /\ Orderly(t, file') /\ t.pc \in {"index", "tests"}
  <2>1. calm /\ Alone(p) /\ Orderly(u, file)
    BY <1>s, <1>14 DEF HarnessInv, CalmHolds, TestTaken
  <2>2. Readable(file \o u.buffer) /\ file \in Seq(Lines)
    BY <1>1, <2>1 DEF Orderly, HarnessInv, HarnessTyped
  <2>3. file \o u.buffer \in Seq(Lines)
    BY <1>1, <2>2
  <2>4. Readable((file \o u.buffer) \o <<l>>)
    BY <1>2, <2>2, <2>3, ReadableGrows
  <2>5. (file \o u.buffer) \o <<l>> = file \o b
    <3>1. PICK w \in Seq(Lines) : w = <<l>>
      BY <1>4
    <3>2. PICK v \in Seq(Lines) : v = u.buffer
      BY <1>1
    <3>3. (file \o v) \o w = file \o (v \o w)
      BY <2>2, ConcatAssociative
    <3> QED BY <1>4, <3>1, <3>2, <3>3
  <2>6. Orderly(t, file)
    BY <1>1, <1>7, <2>4, <2>5 DEF Orderly
  <2> QED BY <1>s, <1>1, <1>7, <2>1, <2>6
<1>15. /\ file' \in Seq(Lines) /\ GreenIndex(file') \subseteq earned' /\ calm' \in BOOLEAN
       /\ GreenIndex(file) \subseteq GreenIndex(file')
  BY <1>s, <1>12 DEF HarnessInv, HarnessTyped
<1> QED BY <1>s, <1>6, <1>12, <1>13, <1>14, <1>15, ProcessSteps

LEMMA RunTestHolds == ASSUME HarnessInv, NEW p \in Procs, RunTest(p) PROVE HarnessInv'
<1>1. run[p].pc = "tests" /\ run[p].todo # <<>> /\ revision' = revision /\ scripts' = scripts /\ file' = file
      /\ calm' = calm /\ before' = before
  BY DEF RunTest
<1>2. PICK u, i, rest, ref, ok : TestTaken(p, u, i, rest, ref, ok)
  BY <1>1, TakesTest
<1>3. u = run[p] /\ u \in Testing /\ i = Head(run[p].todo) /\ rest = Tail(run[p].todo)
      /\ ref = Ref(run[p].rev, i, run[p].options.variant) /\ ok = Outcome[scripts][run[p].rev][i] /\ ok \in BOOLEAN
  BY <1>2 DEF TestTaken
<1>4. PICK r1 : r1 = [run EXCEPT ![p].todo = Tail(@)]
  OBVIOUS
<1>5. run \in [Procs -> NotRun \cup Testing \cup Ended]
  BY DEF HarnessInv, HarnessTyped
<1>6. r1 = [run EXCEPT ![p] = [u EXCEPT !.todo = rest]]
  BY <1>3, <1>4, <1>5
<1>9. TestStep
  BY <1>1 DEF TestStep
<1>7. CASE Green(p, ref)
  <2>1. /\ run' = [r1 EXCEPT ![p].summary.skipped = @ + 1, ![p].skips = @ \cup {ref}]
        /\ earned' = earned
    BY <1>3, <1>4, <1>7 DEF RunTest
  <2>2. PICK t : t = TestSkipped(u, rest, ref)
    OBVIOUS
  <2>3. t = [[u EXCEPT !.todo = rest] EXCEPT !.summary.skipped = @ + 1, !.skips = @ \cup {ref}]
    BY <1>3, <2>2 DEF Testing, TestSkipped
  <2>4. run' = [run EXCEPT ![p] = t]
    BY <1>5, <1>6, <2>1, <2>3
  <2>5. run' = [run EXCEPT ![p] = TestSkipped(u, rest, ref)]
    BY <2>2, <2>4
  <2> QED BY <1>2, <1>7, <1>9, <2>1, <2>5, SkipHolds
<1>8. CASE ~Green(p, ref)
  <2>1. PICK l : l = Line(p, ref, ok, "whole")
    OBVIOUS
  <2>2. PICK sum : sum = IF ok THEN [u.summary EXCEPT !.passed = @ + 1] ELSE [u.summary EXCEPT !.failed = @ + 1]
    OBVIOUS
  <2>3. PICK t : t = TestRecorded(u, rest, sum, l)
    OBVIOUS
  <2>4. u.summary \in Tallies
    BY <1>3 DEF Testing
  <2>5. Counted(u, sum, ok)
    BY <2>2, <2>4 DEF Tallies, Counted
  <2>6. ASSUME ok PROVE run' = [run EXCEPT ![p] = t] /\ earned' = earned \cup (IF ok THEN {ref} ELSE {})
    <3>1. run' = [r1 EXCEPT ![p].summary["passed"] = @ + 1, ![p].buffer = Append(@, l)] /\ earned' = earned \cup {ref}
      BY <1>3, <1>4, <1>8, <2>1, <2>6 DEF RunTest
    <3>2. [[u EXCEPT !.todo = rest] EXCEPT !.summary["passed"] = @ + 1, !.buffer = Append(@, l)] = t
      BY <1>3, <2>2, <2>3, <2>6 DEF Testing, TestRecorded
    <3>3. run' = [run EXCEPT ![p] = t]
      BY <1>5, <1>6, <3>1, <3>2
    <3>4. earned' = earned \cup (IF ok THEN {ref} ELSE {})
      BY <2>6, <3>1
    <3> QED BY <3>3, <3>4
  <2>7. ASSUME ~ok PROVE run' = [run EXCEPT ![p] = t] /\ earned' = earned \cup (IF ok THEN {ref} ELSE {})
    <3>1. run' = [r1 EXCEPT ![p].summary["failed"] = @ + 1, ![p].buffer = Append(@, l)] /\ earned' = earned
      BY <1>3, <1>4, <1>8, <2>1, <2>7 DEF RunTest
    <3>2. [[u EXCEPT !.todo = rest] EXCEPT !.summary["failed"] = @ + 1, !.buffer = Append(@, l)] = t
      BY <1>3, <2>2, <2>3, <2>7 DEF Testing, TestRecorded
    <3>3. run' = [run EXCEPT ![p] = t]
      BY <1>5, <1>6, <3>1, <3>2
    <3>4. earned' = earned \cup (IF ok THEN {ref} ELSE {})
      BY <2>7, <3>1
    <3> QED BY <3>3, <3>4
  <2>8. run' = [run EXCEPT ![p] = t] /\ earned' = earned \cup (IF ok THEN {ref} ELSE {})
    BY <1>3, <2>6, <2>7
  <2>9. run' = [run EXCEPT ![p] = TestRecorded(u, rest, sum, Line(p, ref, ok, "whole"))]
    BY <2>1, <2>3, <2>8
  <2> QED BY <1>2, <1>8, <1>9, <2>5, <2>8, <2>9, RecordHolds
<1> QED BY <1>7, <1>8

LEMMA FrontLast ==
  ASSUME NEW T, NEW s \in Seq(T), s # <<>>
  PROVE  Front(s) \in Seq(T) /\ Last(s) \in T /\ s = Front(s) \o <<Last(s)>>
<1>1. PICK N \in Nat : N = Len(s)
  OBVIOUS
<1>2. N \in Nat \ {0}
  BY <1>1, EmptySeq
<1>3. 1 \in 1..N /\ N \in 1..N /\ N - 1 \in Int /\ 1 \in Int /\ \A i \in 1..N - 1 : s[i] \in T
  BY <1>1, <1>2
<1>4. Front(s) = SubSeq(s, 1, N - 1) /\ Last(s) = s[N]
  BY <1>1 DEF Front, Last
<1>5. Front(s) \in Seq(T)
  BY <1>3, <1>4, SubSeqProperties
<1>6. SubSeq(s, 1, N) = SubSeq(s, 1, N - 1) \o <<s[N]>>
  <2>1. 1 \in 1..Len(s) /\ N \in 1..Len(s)
    BY <1>1, <1>3
  <2> QED BY <2>1, SubSeqRecursiveSecond
<1>7. SubSeq(s, 1, N) = s
  BY <1>1, SubSeqFull
<1>8. s[N] \in T
  BY <1>1, <1>3
<1> QED BY <1>4, <1>5, <1>6, <1>7, <1>8

LEMMA OneIs == \A l \in Lines : <<l>> \in Seq(Lines)
OBVIOUS

LEMMA SpillHolds == ASSUME HarnessInv, NEW p \in Procs, Spill(p) PROVE HarnessInv'
<1>1. PICK u : u = run[p]
  OBVIOUS
<1>2. PICK l : l = Last(u.buffer)
  OBVIOUS
<1>3. PICK pre : pre = Front(u.buffer)
  OBVIOUS
<1>4. PICK h : h = HeadOf(l)
  OBVIOUS
<1>5. PICK r : r = RestOf(l)
  OBVIOUS
<1>6. /\ u.pc = "tests" /\ u.buffer # <<>> /\ l.part = "whole"
      /\ revision' = revision /\ scripts' = scripts /\ earned' = earned /\ before' = before /\ calm' = calm
  BY <1>1, <1>2 DEF Spill
<1>7. u \in Testing /\ UnderTest(p) /\ u.buffer \in Seq(Lines)
  <2>1. UnderTest(p)
    BY <1>1, <1>6 DEF UnderTest
  <2>2. u \in Testing
    BY <1>1, <2>1, UnderIs DEF HarnessInv
  <2> QED BY <2>1, <2>2 DEF Testing
<1>8. pre \in Seq(Lines) /\ l \in Lines /\ u.buffer = pre \o <<l>>
  BY <1>2, <1>3, <1>6, <1>7, FrontLast
<1>9. /\ h \in Lines /\ h.ref = l.ref /\ h.passed = l.passed
      /\ r \in Lines /\ r.ref = l.ref /\ r.passed = l.passed
  BY <1>4, <1>5, <1>8 DEF HeadOf, RestOf, Lines
<1>10. PICK f : f = file \o pre
  OBVIOUS
<1>11. PICK t : t = [u EXCEPT !.buffer = <<r>>]
  OBVIOUS
<1>12. file' = f \o <<h>> /\ run' = [run EXCEPT ![p] = t]
  <2>1. file' = file \o pre \o <<h>>
    BY <1>1, <1>2, <1>3, <1>4 DEF Spill, HeadOf
  <2>2. run' = [run EXCEPT ![p].buffer = <<r>>]
    BY <1>1, <1>2, <1>5 DEF Spill, RestOf
  <2> QED BY <1>1, <1>10, <1>11, <2>1, <2>2
<1>13. PICK bl \in Seq(Lines) : bl = <<l>>
  BY <1>8, OneIs
<1>14. PICK bh \in Seq(Lines) : bh = <<h>>
  BY <1>9, OneIs
<1>15. PICK br \in Seq(Lines) : br = <<r>>
  BY <1>9, OneIs
<1>16. file \in Seq(Lines) /\ f \in Seq(Lines)
  BY <1>8, <1>10 DEF HarnessInv, HarnessTyped
<1>17. GreenIndex(bh) = GreenIndex(bl) /\ GreenIndex(br) = GreenIndex(bl)
  BY <1>9, <1>13, <1>14, <1>15, GreenOfOne
<1>18. GreenIndex(u.buffer) = GreenIndex(pre) \cup GreenIndex(bl)
  <2>1. GreenIndex(pre \o bl) = GreenIndex(pre) \cup GreenIndex(bl)
    BY <1>8, GreenJoins
  <2> QED BY <1>8, <1>13, <2>1
<1>19. GreenIndex(file') = GreenIndex(file) \cup GreenIndex(pre) \cup GreenIndex(bl)
  <2>1. GreenIndex(f \o bh) = GreenIndex(f) \cup GreenIndex(bh)
    BY <1>16, GreenJoins
  <2>2. GreenIndex(file \o pre) = GreenIndex(file) \cup GreenIndex(pre)
    BY <1>8, <1>16, GreenJoins
  <2> QED BY <1>10, <1>12, <1>14, <1>17, <2>1, <2>2
<1>20. file' \in Seq(Lines)
  <2>1. f \o bh \in Seq(Lines)
    BY <1>16
  <2> QED BY <1>12, <1>14, <2>1
<1>21. t = [u EXCEPT !.buffer = br] /\ t \in Testing
  BY <1>7, <1>11, <1>15 DEF Testing
<1>22. /\ t.pc = u.pc /\ t.todo = u.todo /\ t.rev = u.rev /\ t.index = u.index /\ t.agents = u.agents /\ t.options = u.options
       /\ t.steady = u.steady /\ t.again = u.again /\ t.buffer = br /\ t.summary = u.summary /\ t.skips = u.skips
  BY <1>7, <1>21 DEF Testing
<1>23. /\ TestHolds(u, GreenIndex(file), scripts) /\ GreenIndex(u.buffer) \subseteq earned
       /\ \A s \in u.skips : \E e \in earned : Key(s) = Key(e)
  BY <1>1, <1>6 DEF HarnessInv, RunHolds
<1>24. GreenIndex(file) \subseteq GreenIndex(file')
  BY <1>19
<1>25. GreenIndex(file) \cup GreenIndex(u.buffer) \subseteq GreenIndex(file') \cup GreenIndex(t.buffer)
  BY <1>17, <1>18, <1>19, <1>22
<1>26. TestHolds(t, GreenIndex(file'), scripts)
  <2>1. t.index \subseteq GreenIndex(file')
    BY <1>22, <1>23, <1>24 DEF TestHolds
  <2>2. ASSUME t.steady, NEW i \in ToSet(Wanted(t.options, t.rev)), i \notin ToSet(t.todo)
        PROVE  PassKept(GreenIndex(file') \cup GreenIndex(t.buffer), scripts, t.rev, i, t.options.variant)
    <3>1. PassKept(GreenIndex(file) \cup GreenIndex(u.buffer), scripts, u.rev, i, u.options.variant)
      BY <1>22, <1>23, <2>2 DEF TestHolds
    <3> QED BY <1>22, <1>25, <3>1 DEF PassKept
  <2>3. ASSUME t.steady /\ t.again /\ ~t.options.force
        PROVE  t.summary.passed = 0 /\ \A i \in ToSet(t.todo) : PassKept(t.index, scripts, t.rev, i, t.options.variant)
    BY <1>6, <1>22, <1>23, <2>3 DEF TestHolds
  <2>4. /\ \A i \in ToSet(t.todo) : i \in DOMAIN Candidates[t.rev]
        /\ t.summary.discovered = t.summary.skipped + t.summary.passed + t.summary.failed + Len(t.todo) + t.agents
        /\ t.summary.notRunnable = 0 /\ t.pc # "index"
    BY <1>6, <1>22, <1>23 DEF TestHolds
  <2> QED BY <2>1, <2>2, <2>3, <2>4 DEF TestHolds
<1>27. GreenIndex(t.buffer) \subseteq earned /\ GreenIndex(file') \subseteq earned
  BY <1>17, <1>18, <1>19, <1>22, <1>23 DEF HarnessInv
<1>28. RunHolds(t, GreenIndex(file'), earned', scripts)
  BY <1>6, <1>22, <1>23, <1>26, <1>27 DEF RunHolds
<1>29. ASSUME calm PROVE Alone(p) /\ Orderly(t, file')
  <2>1. Alone(p) /\ Orderly(u, file)
    BY <1>1, <1>7, <1>29 DEF HarnessInv, CalmHolds
  <2>2. Readable(file \o (pre \o bl))
    BY <1>6, <1>8, <1>13, <2>1 DEF Orderly
  <2>3. (file \o pre) \o bl = file \o (pre \o bl)
    <3>1. PICK v \in Seq(Lines) : v = pre
      BY <1>8
    <3>2. PICK g \in Seq(Lines) : g = file
      BY <1>16
    <3>3. (g \o v) \o bl = g \o (v \o bl)
      BY ConcatAssociative
    <3> QED BY <3>1, <3>2, <3>3
  <2>4. Readable(f \o <<l>>)
    BY <1>10, <1>13, <2>2, <2>3
  <2>5. Readable((f \o <<HeadOf(l)>>) \o <<RestOf(l)>>)
    BY <1>6, <1>8, <1>16, <2>4, ReadableSplits
  <2>6. Readable(file' \o t.buffer)
    BY <1>4, <1>5, <1>12, <1>15, <1>22, <2>5
  <2> QED BY <1>6, <1>22, <2>1, <2>6 DEF Orderly
<1>30. earned' \subseteq Refs /\ earned \subseteq earned' /\ calm' \in BOOLEAN /\ t.pc \in {"index", "tests"}
  BY <1>6, <1>22 DEF HarnessInv, HarnessTyped
<1>31. calm' => calm /\ Alone(p) /\ Orderly(t, file')
  BY <1>6, <1>29
<1>32. GreenIndex(file') \subseteq earned'
  BY <1>6, <1>27
<1> QED BY <1>6, <1>12, <1>20, <1>21, <1>24, <1>28, <1>30, <1>31, <1>32, ProcessSteps

LEMMA FinishHolds == ASSUME HarnessInv, NEW p \in Procs, Finish(p) PROVE HarnessInv'
<1>1. PICK u : u = run[p]
  OBVIOUS
<1>2. /\ u.pc = "tests" /\ u.todo = <<>> /\ file' = file \o u.buffer /\ before' = (IF u.steady THEN World(p) ELSE Unset)
      /\ revision' = revision /\ scripts' = scripts /\ earned' = earned /\ calm' = calm
  BY <1>1 DEF Finish, Closed
<1>3. PICK sum : sum = [u.summary EXCEPT !.notRunnable = u.agents]
  OBVIOUS
<1>4. PICK t : t = [pc |-> "done", options |-> u.options, again |-> u.steady /\ u.again, skips |-> u.skips, summary |-> sum]
  OBVIOUS
<1>5. run' = [run EXCEPT ![p] = t]
  BY <1>1, <1>3, <1>4 DEF Finish
<1>6. u \in Testing /\ UnderTest(p)
  <2>1. UnderTest(p)
    BY <1>1, <1>2 DEF UnderTest
  <2>2. u \in Testing
    BY <1>1, <2>1, UnderIs DEF HarnessInv
  <2> QED BY <2>1, <2>2
<1>7. u.buffer \in Seq(Lines) /\ u.summary \in Tallies /\ u.agents \in Nat /\ file \in Seq(Lines) /\ u.rev \in DOMAIN Revisions
      /\ u.options \in Options /\ u.steady \in BOOLEAN /\ u.again \in BOOLEAN
  BY <1>6 DEF Testing, HarnessInv, HarnessTyped
<1>8. /\ sum \in Tallies /\ sum.notRunnable = u.agents /\ sum.discovered = u.summary.discovered
      /\ sum.skipped = u.summary.skipped /\ sum.passed = u.summary.passed /\ sum.failed = u.summary.failed
  BY <1>3, <1>7 DEF Tallies
<1>9. /\ t \in Ended /\ t.pc = "done" /\ t.options = u.options /\ t.again = (u.steady /\ u.again)
      /\ t.skips = u.skips /\ t.summary = sum
  BY <1>4, <1>6, <1>7, <1>8 DEF Ended, Testing
<1>10. GreenIndex(file') = GreenIndex(file) \cup GreenIndex(u.buffer) /\ file' \in Seq(Lines)
  <2>1. PICK b \in Seq(Lines) : b = u.buffer
    BY <1>7
  <2>2. GreenIndex(file \o b) = GreenIndex(file) \cup GreenIndex(b) /\ file \o b \in Seq(Lines)
    BY <1>7, GreenJoins
  <2> QED BY <1>2, <2>1, <2>2
<1>11. /\ TestHolds(u, GreenIndex(file), scripts) /\ GreenIndex(u.buffer) \subseteq earned
       /\ \A s \in u.skips : \E e \in earned : Key(s) = Key(e)
  BY <1>1, <1>2 DEF HarnessInv, RunHolds
<1>12. DoneHolds(t)
  <2>1. /\ u.summary.discovered = u.summary.skipped + u.summary.passed + u.summary.failed + Len(u.todo) + u.agents
        /\ Len(u.todo) = 0
    BY <1>2, <1>11, EmptySeq DEF TestHolds
  <2>2. PICK a \in Nat : a = u.summary.skipped
    BY <1>7 DEF Tallies
  <2>3. PICK b \in Nat : b = u.summary.passed
    BY <1>7 DEF Tallies
  <2>4. PICK c \in Nat : c = u.summary.failed
    BY <1>7 DEF Tallies
  <2>5. PICK e \in Nat : e = u.agents
    BY <1>7
  <2>6. u.summary.discovered = a + b + c + 0 + e
    BY <2>1, <2>2, <2>3, <2>4, <2>5
  <2>7. u.summary.discovered = a + b + c + e
    BY <2>6
  <2>8. t.summary.discovered = t.summary.skipped + t.summary.passed + t.summary.failed + t.summary.notRunnable
    BY <1>8, <1>9, <2>2, <2>3, <2>4, <2>5, <2>7
  <2>9. (t.again /\ ~t.options.force) => t.summary.passed = 0
    BY <1>8, <1>9, <1>11 DEF TestHolds
  <2> QED BY <2>8, <2>9 DEF DoneHolds
<1>13. RunHolds(t, GreenIndex(file'), earned', scripts)
  BY <1>2, <1>9, <1>11, <1>12 DEF RunHolds
<1>14. before' = Unset \/ (before' \in Worlds /\ WorldHolds(before', GreenIndex(file')))
  <2>1. CASE ~u.steady
    BY <1>2, <2>1
  <2>2. CASE u.steady
    <3>1. PICK w : w = World(p)
      OBVIOUS
    <3>2. w = [revision |-> u.rev, scripts |-> scripts, options |-> u.options]
      BY <1>1, <3>1 DEF World
    <3>3. w \in Worlds /\ w.revision = u.rev /\ w.scripts = scripts /\ w.options = u.options
      BY <1>7, <3>2 DEF Worlds, HarnessInv, HarnessTyped
    <3>4. ASSUME NEW i \in ToSet(Wanted(u.options, u.rev)) PROVE PassKept(GreenIndex(file'), scripts, u.rev, i, u.options.variant)
      <4>1. i \notin ToSet(u.todo)
        BY <1>2 DEF ToSet
      <4>2. PassKept(GreenIndex(file) \cup GreenIndex(u.buffer), scripts, u.rev, i, u.options.variant)
        BY <1>11, <2>2, <3>4, <4>1 DEF TestHolds
      <4> QED BY <1>10, <4>2
    <3>5. WorldHolds(w, GreenIndex(file'))
      BY <3>3, <3>4 DEF WorldHolds
    <3> QED BY <1>2, <2>2, <3>1, <3>3, <3>5
  <2> QED BY <2>1, <2>2
<1>15. ASSUME calm PROVE Alone(p) /\ Orderly(t, file') /\ Readable(file')
  <2>1. Alone(p) /\ Orderly(u, file)
    BY <1>1, <1>6, <1>15 DEF HarnessInv, CalmHolds
  <2>2. Readable(file')
    BY <1>2, <2>1 DEF Orderly
  <2> QED BY <1>9, <2>1, <2>2 DEF Orderly
<1>16. /\ earned' \subseteq Refs /\ earned \subseteq earned' /\ calm' \in BOOLEAN
       /\ GreenIndex(file) \subseteq GreenIndex(file') /\ GreenIndex(file') \subseteq earned'
  BY <1>2, <1>10, <1>11 DEF HarnessInv, HarnessTyped
<1>17. calm' => calm /\ Alone(p) /\ Orderly(t, file') /\ Readable(file')
  BY <1>2, <1>15
<1> QED BY <1>2, <1>5, <1>9, <1>10, <1>13, <1>14, <1>16, <1>17, ProcessSteps

-----------------------------------------------------------------------------
(* `oac test` keeps its word.                                              *)
HarnessStands == HarnessInv /\ calls \in Seq(Dispatches)

LEMMA HarnessSteps == HarnessStands /\ [Next]_vars => HarnessStands'
<1> SUFFICES ASSUME HarnessStands, [Next]_vars PROVE HarnessStands'
  OBVIOUS
<1>1. ASSUME HarnessInv' /\ calls' = calls PROVE HarnessStands'
  BY <1>1 DEF HarnessStands
<1>2. CASE Edit
  BY <1>1, <1>2, RevisionEdited DEF HarnessStands, Edit
<1>3. CASE Dispatch
  <2>1. PICK step \in Steps : calls' = Append(calls, [name |-> step, args |-> Nothing, output |-> Nothing])
    BY <1>3 DEF Dispatch
  <2>2. [name |-> step, args |-> Nothing, output |-> Nothing] \in Dispatches
    BY DEF Dispatches
  <2>3. calls' \in Seq(Dispatches)
    BY <2>1, <2>2, AppendProperties DEF HarnessStands
  <2>4. HarnessInv'
    <3>1. /\ revision' = revision /\ scripts' = scripts /\ file' = file /\ run' = run /\ calm' = calm /\ earned' = earned
          /\ before' = before
      BY <1>3 DEF Dispatch, harness
    <3> QED BY <3>1 DEF HarnessStands, HarnessInv, HarnessTyped, CalmHolds, UnderTest, Alone
  <2> QED BY <2>3, <2>4 DEF HarnessStands
<1>4. ASSUME NEW p \in Procs, Begin(p) \/ ReadIndex(p) \/ RunTest(p) \/ Spill(p) \/ Finish(p) \/ Die(p)
      PROVE  HarnessStands'
  <2>1. HarnessInv'
    BY <1>4, BeginHolds, ReadIndexHolds, RunTestHolds, SpillHolds, FinishHolds, DieHolds DEF HarnessStands
  <2>2. calls' = calls
    BY <1>4 DEF Begin, ReadIndex, RunTest, Spill, Finish, Die
  <2> QED BY <1>1, <2>1, <2>2
<1>5. CASE UNCHANGED vars
  <2>1. /\ revision' = revision /\ scripts' = scripts /\ file' = file /\ run' = run /\ calm' = calm /\ earned' = earned
        /\ before' = before /\ calls' = calls
    BY <1>5 DEF vars, harness
  <2>2. HarnessInv'
    BY <2>1 DEF HarnessStands, HarnessInv, HarnessTyped, CalmHolds, UnderTest, Alone
  <2> QED BY <1>1, <2>1, <2>2
<1> QED BY <1>2, <1>3, <1>4, <1>5 DEF Next

(* Only a run of a test earns, and it earns what has just passed.          *)
LEMMA EarnedSteps == HarnessStands /\ Earned /\ [Next]_vars => Earned'
<1> SUFFICES ASSUME HarnessStands, Earned, [Next]_vars PROVE Earned'
  OBVIOUS
<1>1. CASE earned' = earned
  BY <1>1 DEF Earned, HoldsAgain
<1>2. ASSUME NEW p \in Procs, RunTest(p) PROVE Earned'
  <2>1. run[p].pc = "tests" /\ run[p].todo # <<>>
    BY <1>2 DEF RunTest
  <2>2. PICK u, i, rest, ref, ok : TestTaken(p, u, i, rest, ref, ok)
    BY <2>1, TakesTest DEF HarnessStands
  <2>3. PICK r : r = run[p].rev
    OBVIOUS
  <2>7. i = Head(run[p].todo) /\ ref = Ref(r, i, run[p].options.variant)
        /\ scripts \in DOMAIN Scripts /\ r \in DOMAIN Revisions /\ i \in DOMAIN Candidates[r]
    <3>1. i = Head(run[p].todo) /\ ref = Ref(r, i, run[p].options.variant) /\ ref \in Refs
      BY <2>2, <2>3 DEF TestTaken
    <3>2. ref[1] = r /\ ref[2] = i
      BY <3>1 DEF Ref
    <3>3. scripts \in DOMAIN Scripts
      BY DEF HarnessStands, HarnessInv, HarnessTyped
    <3> QED BY <3>1, <3>2, <3>3, RefIs
  <2>4. earned' = earned \/ (Outcome[scripts][r][i] /\ earned' = earned \cup {ref})
    BY <1>2, <2>3, <2>7 DEF RunTest
  <2>5. ASSUME Outcome[scripts][r][i], earned' = earned \cup {ref},
               Candidates[r][i].kind = "capability"
        PROVE  HoldsAgain(ref)
    <3>2. Passes(Candidates[r][i], Revisions[r].profiles, Scripts[scripts])
      BY <2>5, <2>7 DEF Outcome
    <3>3. ref[1] = r /\ ref[2] = i
      BY <2>7 DEF Ref
    <3> QED BY <2>5, <3>2, <3>3 DEF Passes, HoldsAgain
  <2>6. ref[1] = r /\ ref[2] = i
    BY <2>7 DEF Ref
  <2> QED BY <2>4, <2>5, <2>6 DEF Earned, HoldsAgain
<1>3. CASE UNCHANGED vars
  BY <1>1, <1>3 DEF vars, harness
<1>4. CASE Next
  <2>1. CASE Edit \/ Dispatch
    BY <1>1, <2>1 DEF Edit, Dispatch, harness
  <2>2. ASSUME NEW p \in Procs, Begin(p) \/ ReadIndex(p) \/ RunTest(p) \/ Spill(p) \/ Finish(p) \/ Die(p)
        PROVE  Earned'
    BY <1>1, <1>2, <2>2 DEF Begin, ReadIndex, Spill, Finish, Die
  <2> QED BY <1>4, <2>1, <2>2 DEF Next
<1> QED BY <1>3, <1>4

LEMMA HarnessKeepsWord == HarnessStands /\ Earned => TestsKeepWord
<1> SUFFICES ASSUME HarnessStands, Earned PROVE TestsKeepWord
  OBVIOUS
<1>1. ASSUME NEW p \in Procs, run[p].pc \in {"tests", "done"}, NEW s \in run[p].skips
      PROVE  \E e \in earned : Vouches(e, s)
  <2>1. RunHolds(run[p], GreenIndex(file), earned, scripts)
    BY DEF HarnessStands, HarnessInv
  <2>2. PICK e \in earned : Key(s) = Key(e)
    BY <1>1, <2>1 DEF RunHolds
  <2>3. run[p] \in Testing \cup Ended
    BY <1>1, UnderIs DEF HarnessStands, HarnessInv, UnderTest
  <2>4. s \in Refs /\ e \in Refs
    BY <1>1, <2>3 DEF Testing, Ended, HarnessStands, HarnessInv, HarnessTyped
  <2> QED BY <2>2, <2>4, EarnedVouches
<1>2. SkipIsEarned
  BY <1>1 DEF SkipIsEarned
<1>3. ASSUME calm, NEW p \in Procs
      PROVE  run[p].pc # "raised" /\ (run[p].pc = "done" => DoneHolds(run[p]))
  BY <1>3 DEF HarnessStands, HarnessInv, CalmHolds, Orderly, RunHolds
<1>4. calm => ((\A p \in Procs : ~UnderTest(p)) => Readable(file))
  BY DEF HarnessStands, HarnessInv, CalmHolds
<1>5. FileTellsRuns
  BY <1>3, <1>4 DEF FileTellsRuns, DoneHolds
<1>6. PathMeansOrder
  BY PathHolds DEF HarnessStands
<1> QED BY <1>2, <1>5, <1>6 DEF TestsKeepWord

(* Whatever the definitions, the slots, the scripts behind their tools and *)
(* the runs' options, `oac test` keeps its word: a run reports a test as    *)
(* skipped only if it passed once on the same definition, model, mocks and  *)
(* variant, and a skipped capability test would pass again unless its agent *)
(* passed in another mode; as long as no runs overlap and none dies the     *)
(* file tells every result of every run; and a branch passes exactly when   *)
(* its path is dispatched in order.                                         *)
THEOREM TestsStand == Spec => []TestsKeepWord
<1>1. Init => HarnessStands /\ Earned
  BY HarnessStarts DEF HarnessStands, Earned, Init
<1>2. HarnessStands /\ Earned /\ [Next]_vars => (HarnessStands /\ Earned)'
  BY HarnessSteps, EarnedSteps
<1>3. HarnessStands /\ Earned => TestsKeepWord
  BY HarnessKeepsWord
<1> QED BY <1>1, <1>2, <1>3, PTL DEF Spec
=============================================================================
