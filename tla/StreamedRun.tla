---------------------------- MODULE StreamedRun ----------------------------
(***************************************************************************)
(* improvement/long_running.py: an agent process whose JSON event lines a   *)
(* reader task feeds to a tap while the driver waits until the stream is   *)
(* idle or an event arrives, and then leaves the context manager.          *)
(*                                                                         *)
(* A line is "match" (an event the driver waits for), "event", "noise" (no *)
(* JSON object) or "long" (beyond the limit of the stream reader, whose    *)
(* readline raises).  Time is in polls: idle_seconds is Idle of them.      *)
(***************************************************************************)
EXTENDS Naturals, Sequences, FiniteSets, SequencesExt

CONSTANTS
  MaxLines, Idle, MaxTotal

ASSUME StreamAssumption == MaxLines \in Nat /\ {Idle, MaxTotal} \subseteq Nat \ {0}

VARIABLES
  child,      \* the process: [state, lines it wrote, whether a child of its keeps the pipe open]
  tap,        \* the events fed so far
  reader,     \* [state, how many lines it read]
  wait,       \* the driver: [pc, total: polls so far, quiet: polls since the last event]
  verdict     \* what its last wait returned

stream == <<child, tap, reader, wait, verdict>>

StreamInit ==
  /\ child = [state |-> "none", lines |-> <<>>, held |-> FALSE] /\ tap = <<>>
  /\ reader = [state |-> "none", read |-> 0]
  /\ wait = [pc |-> "out", total |-> 0, quiet |-> 0] /\ verdict = "none"

Running == child.state \in {"running", "asked"}

Enter ==
  /\ child.state = "none"
  /\ child' = [child EXCEPT !.state = "running"]
  /\ reader' = [reader EXCEPT !.state = "reading"]
  /\ wait' = [wait EXCEPT !.pc = "in"]
  /\ UNCHANGED <<tap, verdict>>

(* The agent: it writes a line, or exits, perhaps with a child that still   *)
(* holds its standard output.                                              *)
WriteLine ==
  /\ Running /\ Len(child.lines) < MaxLines
  /\ \E line \in {"match", "event", "noise", "long"} : child' = [child EXCEPT !.lines = Append(@, line)]
  /\ UNCHANGED <<tap, reader, wait, verdict>>

Exit ==
  /\ Running
  /\ \E held \in BOOLEAN : child' = [child EXCEPT !.state = "exited", !.held = held]
  /\ UNCHANGED <<tap, reader, wait, verdict>>

ReleasePipe ==
  /\ child.held /\ child' = [child EXCEPT !.held = FALSE]
  /\ UNCHANGED <<tap, reader, wait, verdict>>

IsEvent(line) == line \in {"match", "event"}

(* _read_stdout and _classify: one line, or the end of the pipe.           *)
ReadLine ==
  /\ reader.state = "reading" /\ reader.read < Len(child.lines)
  /\ LET line == child.lines[reader.read + 1]
     IN  /\ tap' = IF IsEvent(line) THEN Append(tap, line) ELSE tap
         /\ wait' = IF IsEvent(line) THEN [wait EXCEPT !.quiet = 0] ELSE wait
         /\ reader' = IF line = "long" THEN [reader EXCEPT !.state = "failed"]
                      ELSE [reader EXCEPT !.read = @ + 1]
  /\ UNCHANGED <<child, verdict>>

ReadEnd ==
  /\ reader.state = "reading" /\ reader.read = Len(child.lines) /\ ~Running /\ ~child.held
  /\ reader' = [reader EXCEPT !.state = "ended"]
  /\ UNCHANGED <<child, tap, wait, verdict>>

---------------------------------------------------------------------------
Return(a) == wait' = [wait EXCEPT !.pc = "in"] /\ verdict' = a

BeginWait ==
  /\ wait.pc = "in"
  /\ \/ wait' = [wait EXCEPT !.pc = "idle", !.total = 0] /\ verdict' = "none"
     \/ IF "match" \in Range(tap) THEN Return("event")
        ELSE wait' = [wait EXCEPT !.pc = "event", !.total = 0] /\ verdict' = "none"
  /\ UNCHANGED <<child, tap, reader>>

Less(a, b) == IF a < b THEN a ELSE b

Polled == [wait EXCEPT !.total = @ + 1, !.quiet = Less(@ + 1, Idle)]

(* Mutant: the exit is answered at once. *)
OnExit_Undrained == Return("exited")

(* The exit of the process waits for the reader first. *)
OnExit == wait' = [wait EXCEPT !.pc = "drain"] /\ UNCHANGED verdict

(* wait_until_idle, once every poll. *)
PollIdle ==
  /\ wait.pc = "idle"
  /\ \/ ~Running /\ OnExit
     \/ Running /\ Polled.quiet >= Idle /\ Return("idle")
     \/ Running /\ Polled.quiet < Idle /\ wait.total = MaxTotal /\ Return("timeout")
     \/ Running /\ Polled.quiet < Idle /\ wait.total < MaxTotal /\ wait' = Polled /\ UNCHANGED verdict
  /\ UNCHANGED <<child, tap, reader>>

(* The reader ends; it takes more than five seconds and is cancelled; or    *)
(* its exception reaches the driver.                                       *)
Drain ==
  /\ wait.pc = "drain"
  /\ \/ reader.state = "ended" /\ Return("exited") /\ UNCHANGED reader
     \/ reader.state = "reading" /\ child.held /\ Return("partial") /\ reader' = [reader EXCEPT !.state = "cancelled"]
     \/ reader.state = "cancelled" /\ Return("error") /\ UNCHANGED reader
     \/ reader.state = "failed" /\ Return("error") /\ UNCHANGED reader
  /\ UNCHANGED <<child, tap>>

(* wait_for_event looks at the last event only.                            *)
Arrived == tap # <<>> /\ Last(tap) = "match"

PollEvent ==
  /\ wait.pc = "event"
  /\ \/ Arrived /\ Return("event")
     \/ /\ ~Arrived
        /\ \/ ~Running /\ Return("missing")
           \/ Running /\ wait.total = MaxTotal /\ Return("timeout")
           \/ Running /\ wait.total < MaxTotal /\ wait' = Polled /\ UNCHANGED verdict
  /\ UNCHANGED <<child, tap, reader>>

(* __aexit__: SIGTERM, after five seconds SIGKILL, then the reader goes.   *)
Leave ==
  /\ wait.pc = "in"
  /\ child' = IF Running THEN [child EXCEPT !.state = "asked"] ELSE child
  /\ wait' = [wait EXCEPT !.pc = "leaving"]
  /\ UNCHANGED <<tap, reader, verdict>>

Kill ==
  /\ wait.pc = "leaving" /\ child.state = "asked"
  /\ child' = [child EXCEPT !.state = "exited"]
  /\ UNCHANGED <<tap, reader, wait, verdict>>

Left ==
  /\ wait.pc = "leaving" /\ ~Running
  /\ wait' = [wait EXCEPT !.pc = "left"]
  /\ reader' = IF reader.state = "reading" THEN [reader EXCEPT !.state = "cancelled"] ELSE reader
  /\ UNCHANGED <<child, tap, verdict>>

StreamNext ==
  \/ Enter \/ WriteLine \/ Exit \/ ReleasePipe \/ ReadLine \/ ReadEnd
  \/ BeginWait \/ PollIdle \/ Drain \/ PollEvent \/ Leave \/ Kill \/ Left

StreamSpec == StreamInit /\ [][StreamNext]_stream

---------------------------------------------------------------------------
(* Properties. *)

(* The tap holds the events of the first n lines, in their order.          *)
EventsAmong(n) == {i \in 1..n : IsEvent(child.lines[i])}

Delivered(n) ==
  /\ Len(tap) = Cardinality(EventsAmong(n))
  /\ \A i \in EventsAmong(n) : tap[Cardinality(EventsAmong(i))] = child.lines[i]

(* The tap is always the beginning of what the agent wrote; the caller of a *)
(* wait that answered that the process exited has every event of it; and   *)
(* whoever left the context has a dead process and a tap that is final.    *)
StreamComplete ==
  /\ \E n \in 0..Len(child.lines) : Delivered(n)
  /\ verdict = "exited" => Delivered(Len(child.lines))
  /\ wait.pc = "left" => ~Running /\ reader.state # "reading"
=============================================================================
