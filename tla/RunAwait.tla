------------------------------ MODULE RunAwait ------------------------------
(***************************************************************************)
(* GET /runs/{run_id}/await next to the run service: long-polling readers  *)
(* of the runs table while requests run, fail and crash.  The endpoint     *)
(* only reads, so a waiter's steps leave every variable of RunDispatch     *)
(* alone; what can go wrong is that the answer is stale, or never comes.   *)
(***************************************************************************)
EXTENDS RunDispatch

CONSTANTS
  Waiters,     \* the callers of the await endpoint
  MaxPolls     \* polls that fit into timeout_s at one per poll_interval_s

ASSUME WaitersAssumption == MaxPolls \in Nat \ {0}

VARIABLE waiter   \* [Waiters -> what each call knows]

service == <<dispatching, waiter>>

Idle == [phase |-> "idle", id |-> NoId, polls |-> 0, status |-> "none"]

AwaitInit == DispatchInit /\ waiter = [w \in Waiters |-> Idle]

(* The ids a caller can know: the stub's, and the rows GET /runs lists. *)
KnownIds == DOMAIN table
            \cup {request[r].id : r \in {q \in Requests : request[q] # NoRequest
                                           /\ request[q].mode # "sync"}}

Await(w) ==
  /\ waiter[w].phase = "idle"
  /\ \E id \in KnownIds :
       waiter' = [waiter EXCEPT ![w] = [Idle EXCEPT !.phase = "polling", !.id = id]]
  /\ UNCHANGED dispatching

(* Mutant: any row past 'pending' counts as terminal. *)
Poll_NotPending(w) ==
  /\ waiter[w].phase = "polling"
  /\ waiter[w].id \in DOMAIN table
  /\ table[waiter[w].id].status # "pending"
  /\ waiter' = [waiter EXCEPT ![w].phase = "awaited",
                              ![w].status = table[waiter[w].id].status]
  /\ UNCHANGED dispatching

(* Mutant: the elapsed time is never advanced. *)
Poll_NoDeadline(w) ==
  /\ waiter[w].phase = "polling"
  /\ waiter[w].id \in DOMAIN table
  /\ table[waiter[w].id].status \in Terminal
  /\ waiter' = [waiter EXCEPT ![w].phase = "awaited",
                              ![w].status = table[waiter[w].id].status]
  /\ UNCHANGED dispatching

(* One turn of the loop: 404 on a missing row, an answer on a terminal     *)
(* one, otherwise sleep and count the interval; the last detail read is    *)
(* what a call that timed out returns.                                     *)
Poll(w) ==
  /\ waiter[w].phase = "polling"
  /\ LET me == waiter[w]
         id == me.id
     IN waiter' = [waiter EXCEPT ![w] =
          IF id \notin DOMAIN table THEN [me EXCEPT !.phase = "not_found"]
          ELSE IF table[id].status \in Terminal
            THEN [me EXCEPT !.phase = "awaited", !.status = table[id].status]
            ELSE [me EXCEPT !.polls = @ + 1, !.status = table[id].status,
                            !.phase = IF me.polls + 1 = MaxPolls
                                      THEN "timed_out" ELSE "polling"]]
  /\ UNCHANGED dispatching

DropWaiters ==
  waiter' = [w \in Waiters |-> IF waiter[w].phase = "polling"
                               THEN [waiter[w] EXCEPT !.phase = "dropped"]
                               ELSE waiter[w]]

AwaitNext ==
  \/ \E r \in Requests : (Post(r) \/ Advance(r)) /\ UNCHANGED waiter
  \/ Crash /\ DropWaiters
  \/ \E w \in Waiters : Await(w) \/ Poll(w)

AwaitSpec == AwaitInit /\ [][AwaitNext]_service

(* A coroutine whose wait is bounded goes on: an agent exits or its time is *)
(* up, a callback POST is answered or times out.  Nothing is owed by the   *)
(* database, the children of a killed agent and the callers, and no crash  *)
(* is obliged to happen.                                                   *)
Owed(r) == ~Unbounded(r) /\ Advance(r) /\ UNCHANGED waiter

FairAwaitSpec == AwaitSpec /\ \A r \in Requests : WF_service(Owed(r))

-----------------------------------------------------------------------------
(* An answer with awaited = True stays true: the status a caller was given *)
(* as the outcome is the row's status from then on.                        *)
AwaitedIsFinal ==
  \A w \in Waiters : waiter[w].phase = "awaited" =>
    table[waiter[w].id].status = waiter[w].status

(* As long as the database answers its reads, which have no time limit, a  *)
(* waiter is answered whatever the run does, a stuck row included.         *)
EveryWaiterAnswered ==
  \A w \in Waiters :
    WF_service(Poll(w)) => (waiter[w].phase = "polling" ~> waiter[w].phase # "polling")

(* What anyone was told of a run stays true: the chain tells the walk, the  *)
(* result answered is the row's, and so is an awaited outcome.              *)
AnswersHold == ChainTellsWalk /\ ResultPersisted /\ AwaitedIsFinal

(* Runs end and their waiters are answered, unless they meet a database     *)
(* that does not answer, or the open pipe of an agent that was killed.     *)
NobodyWaitsForever == RunsEnd /\ EveryWaiterAnswered
=============================================================================
