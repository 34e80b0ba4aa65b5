---------------------------- MODULE EventStream ----------------------------
(***************************************************************************)
(* The events a run tells the outside world (interactive/events.py): one   *)
(* emitter per workflow run and per agent turn, all writing to one         *)
(* QueueSink, whose put_nowait raises when the queue is full, and a         *)
(* consumer that drains it at its own pace.                                *)
(***************************************************************************)
EXTENDS Integers, Sequences

CONSTANTS
  QueueSize  \* the capacity of the consumer's queue

ASSUME StreamAssumption == QueueSize \in Nat \ {0}

Sources == {"workflow", "agent"}

VARIABLES
  events,  \* events put and not yet taken
  emitter, \* source -> which emitter it is and its next seq
  seen    \* history: source -> the last event the consumer took

stream == <<events, emitter, seen>>

Nothing == [kind |-> "none", emitter |-> 0, seq |-> -1]

StreamInit ==
  /\ events = <<>>
  /\ emitter = [s \in Sources |-> [id |-> 1, seq |-> 0]]
  /\ seen = [s \in Sources |-> Nothing]

(* The seq is counted before the sink is called. *)
Stamped(s) == emitter[s].seq + 1

Count(s) == emitter' = [emitter EXCEPT ![s].seq = Stamped(s)]

Put(s, kind) ==
  /\ Len(events) < QueueSize
  /\ events' = Append(events, [source |-> s, kind |-> kind,
                             emitter |-> emitter[s].id, seq |-> emitter[s].seq])
  /\ Count(s) /\ UNCHANGED seen

(* Mutant: put waits for room. *)
Full_Waits(s) == FALSE /\ UNCHANGED stream

(* put_nowait raises; what was counted stays counted. *)
Full(s) ==
  /\ Len(events) = QueueSize
  /\ Count(s) /\ UNCHANGED <<events, seen>>

(* A new run of the source has an emitter of its own. *)
NewEmitter(s) ==
  /\ emitter' = [emitter EXCEPT ![s] = [id |-> @.id + 1, seq |-> 0]]
  /\ UNCHANGED <<events, seen>>

Drain ==
  /\ events # <<>>
  /\ LET e == Head(events) IN
     seen' = [seen EXCEPT ![e.source] = [kind |-> e.kind, emitter |-> e.emitter, seq |-> e.seq]]
  /\ events' = Tail(events)
  /\ UNCHANGED emitter

-----------------------------------------------------------------------------
(* "A consumer can order an emitter's events": of one emitter it takes every *)
(* seq in turn, but for the progress a running tool could not put, which   *)
(* leaves one seq out between the tool's start and its end or error; and a *)
(* tool that started is heard to end before the next one starts.           *)
InOrder == [][
  \A s \in Sources : LET last == seen[s]  next == seen'[s] IN
    next # last /\ next.emitter = last.emitter =>
      /\ \/ next.seq = last.seq + 1
         \/ /\ next.seq = last.seq + 2
            /\ last.kind = "tool.start" /\ next.kind \in {"tool.end", "tool.error"}
      /\ last.kind = "tool.start" => next.kind # "tool.start"
      /\ next.kind = "tool.end" => last.kind \in {"tool.start", "progress"}
  ]_stream
=============================================================================
