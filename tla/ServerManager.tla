--------------------------- MODULE ServerManager ---------------------------
(***************************************************************************)
(* scripts/opencode_manager.py: commands that start, stop and ask for the  *)
(* one web server of a project through a PID file, and `run` an agent      *)
(* attached to it; and runtime_spawn's SpawnAgentTool, which runs such a   *)
(* command for another agent.                                              *)
(*                                                                         *)
(* A process of the operating system is None, "starting" or "up" (a server *)
(* before and after it answers /api/health) or "other"; one server holds   *)
(* the port.                                                               *)
(***************************************************************************)
EXTENDS FileStates, Naturals, FiniteSets

CONSTANTS
  Pids, Cmds, \* process ids, and commands that may run at once
  MaxCommands, MaxFaults

ASSUME ManagerAssumption ==
  /\ {MaxCommands, MaxFaults} \subseteq Nat
  /\ None \notin Pids /\ None \notin {"starting", "up", "other"}

VARIABLES
  os,         \* pid -> what runs there
  pidFile,    \* None or a pid
  cmd,        \* the manager's commands: [pc, what, after, pid, spawn]
  handle,     \* the TaskHandle a spawn returned: command -> status, or None
  managed,    \* commands and faults so far
  orderly     \* history: commands never overlapped, none was killed, and none got no answer from
              \* a server that ran or was coming up and started another beside it

server == <<os, pidFile, cmd, handle, managed, orderly>>

NoCmd == [pc |-> "none"]
Alive(pid)   == os[pid] # None
Healthy      == \E q \in Pids : os[q] = "up"  \* whoever answers on the port, if in time
Servers      == {q \in Pids : os[q] \in {"starting", "up"}}

ManagerInit ==
  /\ os = [p \in Pids |-> None] /\ pidFile = None
  /\ cmd = [c \in Cmds |-> NoCmd] /\ handle = [c \in Cmds |-> None]
  /\ managed = [commands |-> 0, faults |-> 0] /\ orderly = TRUE

(* `server start | stop | restart`, `run`, and a spawn that waits for its   *)
(* run or detaches it.                                                     *)
Command(c) ==
  /\ cmd[c].pc = "none" /\ managed.commands < MaxCommands
  /\ managed' = [managed EXCEPT !.commands = @ + 1]
  /\ orderly' = (orderly /\ \A d \in Cmds : cmd[d].pc = "none")
  /\ \E what \in {"start", "stop", "restart", "run", "run bare"}, spawn \in {None, "blocking", "detached"} :
       /\ spawn # None => what = "run"
       /\ cmd' = [cmd EXCEPT ![c] =
            [pc    |-> CASE what \in {"start", "run"}   -> "check"
                         [] what \in {"stop", "restart"} -> "stop"
                         [] OTHER                        -> "attach",
             what  |-> what, pid |-> None, spawn |-> spawn]]
       /\ handle' = [handle EXCEPT ![c] = IF spawn = "detached" THEN "running" ELSE None]
  /\ UNCHANGED <<os, pidFile>>

(* is_server_running: a file whose process is gone is removed; a server    *)
(* that is up may still not answer within two seconds, or with an error.   *)
Gone      == pidFile # None /\ ~Alive(pidFile)
Answers   == pidFile # None /\ Alive(pidFile) /\ Healthy
Forgotten == IF Gone THEN None ELSE pidFile

Then(c, pc) == cmd' = [cmd EXCEPT ![c].pc = pc]

After(c) == IF cmd[c].what = "run" THEN "attach" ELSE "end"

Check(c) ==
  /\ cmd[c].pc = "check"
  /\ \/ Answers /\ Then(c, After(c)) /\ UNCHANGED orderly
     \/ Then(c, "spawn") /\ orderly' = (orderly /\ Servers = {})
  /\ pidFile' = Forgotten
  /\ UNCHANGED <<os, handle, managed>>

(* The command is not there, or a process is started.                      *)
Spawn(c) ==
  /\ cmd[c].pc = "spawn"
  /\ \/ Then(c, After(c)) /\ UNCHANGED os
     \/ \E p \in Pids : /\ os[p] = None /\ os' = [os EXCEPT ![p] = "starting"]
                        /\ cmd' = [cmd EXCEPT ![c].pc = "write", ![c].pid = p]
  /\ UNCHANGED <<pidFile, handle, managed, orderly>>

WritePid(c) ==
  /\ cmd[c].pc = "write"
  /\ pidFile' = cmd[c].pid
  /\ Then(c, "await")
  /\ UNCHANGED <<os, handle, managed, orderly>>

(* Up to thirty polls a second apart, each of which may remove the file;   *)
(* the command goes on whether it was answered or gave up.                 *)
Await(c) ==
  /\ cmd[c].pc = "await"
  /\ pidFile' = Forgotten
  /\ Then(c, After(c))
  /\ UNCHANGED <<os, handle, managed, orderly>>

Stopped(c)   == IF cmd[c].what = "restart" THEN "check" ELSE "end"
Signalled(c) == IF pidFile = None \/ ~Alive(pidFile) THEN Stopped(c) ELSE "term"

Stop(c) ==
  /\ cmd[c].pc = "stop"
  /\ cmd' = [cmd EXCEPT ![c].pc = Signalled(c), ![c].pid = pidFile]
  /\ pidFile' = Forgotten
  /\ UNCHANGED <<os, handle, managed, orderly>>

(* Mutant: a server that ignores SIGTERM is not killed. *)
Killed_Asked(c) == os

Killed(c) == [os EXCEPT ![cmd[c].pid] = None]

(* Ten polls, then SIGKILL: the process is gone, then the file.            *)
Term(c) ==
  /\ cmd[c].pc = "term"
  /\ os' = Killed(c)
  /\ Then(c, "gone")
  /\ UNCHANGED <<pidFile, handle, managed, orderly>>

Unlink(c) ==
  /\ cmd[c].pc = "gone"
  /\ pidFile' = None
  /\ Then(c, Stopped(c))
  /\ UNCHANGED <<os, handle, managed, orderly>>

(* The agent runs attached to the server that answers, or on its own.  It  *)
(* succeeds or fails, or the spawn that waits for it loses patience: then  *)
(* the run goes on without it.                                             *)
Attach(c) ==
  /\ cmd[c].pc = "attach"
  /\ pidFile' = Forgotten
  /\ Then(c, "agent")
  /\ UNCHANGED <<os, handle, managed, orderly>>

AgentEnds(c) ==
  /\ cmd[c].pc = "agent"
  /\ \E status \in {"success", "failure"} :
       handle' = IF cmd[c].spawn = "blocking" THEN [handle EXCEPT ![c] = status] ELSE handle
  /\ Then(c, "end")
  /\ UNCHANGED <<os, pidFile, managed, orderly>>

SpawnTimeout(c) ==
  /\ cmd[c].pc \in {"check", "spawn", "write", "await", "attach", "agent"} /\ cmd[c].spawn = "blocking"
  /\ handle' = [handle EXCEPT ![c] = "timeout"]
  /\ cmd' = [cmd EXCEPT ![c].spawn = None]
  /\ UNCHANGED <<os, pidFile, managed, orderly>>

End(c) ==
  /\ cmd[c].pc = "end" /\ cmd' = [cmd EXCEPT ![c] = NoCmd]
  /\ UNCHANGED <<os, pidFile, handle, managed, orderly>>

(* The operating system: a server comes up if the port is free and dies if *)
(* it is taken; any process may die and its pid be used again; a command   *)
(* may be killed.                                                          *)
ComeUp(p) ==
  /\ os[p] = "starting"
  /\ os' = [os EXCEPT ![p] = IF \E q \in Pids : os[q] = "up" THEN None ELSE "up"]
  /\ UNCHANGED <<pidFile, cmd, handle, managed, orderly>>

Fault ==
  /\ managed.faults < MaxFaults /\ managed' = [managed EXCEPT !.faults = @ + 1]
  /\ \/ \E p \in Pids : /\ os[p] # None /\ os' = [os EXCEPT ![p] = None]
                        /\ UNCHANGED <<cmd, orderly>>
     \/ \E p \in Pids : /\ os[p] = None /\ os' = [os EXCEPT ![p] = "other"]
                        /\ UNCHANGED <<cmd, orderly>>
     \/ \E c \in Cmds : /\ cmd[c].pc # "none" /\ cmd' = [cmd EXCEPT ![c] = NoCmd]
                        /\ UNCHANGED os /\ orderly' = FALSE
  /\ UNCHANGED <<pidFile, handle>>

ManagerNext ==
  \/ \E c \in Cmds : \/ Command(c) \/ Check(c) \/ Spawn(c) \/ WritePid(c) \/ Await(c) \/ Stop(c) \/ Term(c)
                     \/ Unlink(c) \/ Attach(c) \/ AgentEnds(c) \/ SpawnTimeout(c) \/ End(c)
  \/ \E p \in Pids : ComeUp(p)
  \/ Fault

ManagerSpec == ManagerInit /\ [][ManagerNext]_server

---------------------------------------------------------------------------
(* Properties. *)

(* Between commands there is at most one server, and the PID file names it, *)
(* so that it can be stopped again; and a stop leaves none running, though  *)
(* servers are slow, die or ignore signals, and their pids are used again.  *)
(* It takes two commands at once, a killed one, or a check that a running   *)
(* server did not answer before another start, to lose a server.            *)
OneServerKnown ==
  orderly =>
    /\ (\A c \in Cmds : cmd[c].pc = "none") => Servers \subseteq {pidFile}
    /\ \A c \in Cmds : cmd[c].pc = "end" /\ cmd[c].what = "stop" => Servers = {}
=============================================================================
