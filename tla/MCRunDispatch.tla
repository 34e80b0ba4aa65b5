--------------------------- MODULE MCRunDispatch ---------------------------
(* Small instances of RunDispatch for TLC. *)
EXTENDS RunDispatch, TLC

CONSTANTS r1, r2, c1

TwoRequests == {r1, r2}
OneRequest  == {r1}
CallerId    == <<"caller", c1, 0>>
CallerIds   == {CallerId}

(* An attempt, a step that is always skipped and another attempt; and two  *)
(* attempts in a row.  In a pair of requests one may end with a skip.      *)
Chains3 == {<<>>, <<"on_failure", "on_timeout", "always">>, <<"always", "on_failure">>}
PairChains == {<<>>, <<"always", "always">>, <<"always", "on_timeout">>}

Body(mode, id, steps, callback) ==
  [mode |-> mode, id |-> id, steps |-> steps, callback |-> callback]

(* Every mode, with and without an id and a policy, in few bodies: what    *)
(* two requests can do to each other needs these shapes only.              *)
MixedBodies ==
  { Body("sync", NoId, <<>>, FALSE),
    Body("async", CallerId, <<>>, FALSE),
    Body("fire_and_forget", NoId, <<"always", "always">>, TRUE),
    Body("sync", NoId, <<"always", "on_timeout">>, FALSE) }

RequestSymmetry == Permutations(Requests)

(* Every body over the ids and policies; a URL matters in one mode only.   *)
AllBodies == {q \in [mode : Modes, id : Supplied \cup {NoId}, steps : Policies, callback : BOOLEAN] :
                q.callback => q.mode = "fire_and_forget"}

OneSupplied  == { Body("sync", CallerId, <<>>, FALSE) }
NoFaults     == {}
WithDatabase == {TRUE}
=============================================================================
