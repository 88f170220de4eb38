-------------------------------- MODULE Rpc --------------------------------
(* What a caller of McpClient.request is promised, without ids, futures,    *)
(* lines or a read loop: every request it makes ends once, with the answer  *)
(* the module gave to that request or with a failure, and is never changed  *)
(* by what arrives later.                                                   *)
CONSTANT Requests

VARIABLE stage

Init == stage = [r \in Requests |-> "unasked"]

Becomes(r, from, to) == stage[r] = from /\ stage' = [stage EXCEPT ![r] = to]

Ask(r) == Becomes(r, "unasked", "asked")
Refuse(r) == Becomes(r, "unasked", "failed")
Answer(r) == Becomes(r, "asked", "answered")
Fail(r) == Becomes(r, "asked", "failed")

Next == \E r \in Requests : Ask(r) \/ Refuse(r) \/ Answer(r) \/ Fail(r)

Spec == Init /\ [][Next]_stage
=============================================================================
