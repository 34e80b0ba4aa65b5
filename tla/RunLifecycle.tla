--------------------------- MODULE RunLifecycle ---------------------------
(***************************************************************************)
(* What the runs table promises its readers: a row is inserted pending,    *)
(* goes to running, gets one outcome, and keeps it.  CHECK (status IN ...) *)
(* in the migration fixes the four statuses; nothing in the database fixes *)
(* their order.                                                            *)
(***************************************************************************)
CONSTANT Rows
VARIABLE status    \* [Rows -> row status, or "absent"]

Outcome == {"success", "failure"}
Status  == {"absent", "pending", "running"} \cup Outcome

Init == status = [id \in Rows |-> "absent"]

Move(id, from, to) ==
  /\ status[id] = from
  /\ status' = [status EXCEPT ![id] = to]

Insert(id) == Move(id, "absent", "pending")
Start(id)  == Move(id, "pending", "running")
Complete(id) == \E o \in Outcome : Move(id, "running", o)

Next == \E id \in Rows : Insert(id) \/ Start(id) \/ Complete(id)

Spec == Init /\ [][Next]_status
=============================================================================
