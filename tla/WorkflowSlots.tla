--------------------------- MODULE WorkflowSlots ---------------------------
(***************************************************************************)
(* What the application promises whoever requests a workflow, and nothing  *)
(* of how: there is one slot for the workflow that runs and one for the    *)
(* request that waits.  A request is answered once; one that was told to   *)
(* wait runs directly after the workflow it waited for, unless it is       *)
(* dropped.  AppController is shown to implement this specification.       *)
(***************************************************************************)
CONSTANT Requests

VARIABLE fate

Running == {r \in Requests : fate[r] = "active"}
Queued  == {r \in Requests : fate[r] = "waiting"}

Init == fate = [r \in Requests |-> "new"]

Become(r, f) == fate' = [fate EXCEPT ![r] = f]

Ask(r)    == fate[r] = "new" /\ Become(r, "posted")
Start(r)  == fate[r] = "posted" /\ Running = {} /\ Become(r, "active")
Wait(r)   == fate[r] = "posted" /\ Running # {} /\ Queued = {} /\ Become(r, "waiting")
Reject(r) == fate[r] = "posted" /\ Running # {} /\ Become(r, "unhandled")
Drop(r)   == fate[r] = "waiting" /\ Become(r, "dropped")

(* The end of one workflow is the start of the one that waited for it. *)
Finish(r) ==
    /\ fate[r] = "active"
    /\ fate' = [q \in Requests |-> CASE q = r           -> "finished"
                                     [] q \in Queued    -> "active"
                                     [] OTHER           -> fate[q]]

Next == \E r \in Requests :
            Ask(r) \/ Start(r) \/ Wait(r) \/ Reject(r) \/ Drop(r) \/ Finish(r)

Spec == Init /\ [][Next]_fate
=============================================================================
