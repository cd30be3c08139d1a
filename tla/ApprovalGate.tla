---------------------------- MODULE ApprovalGate ----------------------------
(***************************************************************************)
(* What the monitor's gate promises about a request, without its channels, *)
(* maps and ring: a request that is held goes upstream only by an approval *)
(* that was given while it was held, it goes there once, and a refusal is  *)
(* final.  A verdict may come too late; it is then given and has no effect.*)
(***************************************************************************)
CONSTANT Requests

VARIABLES
    phase,  \* how far each request has come
    given   \* the verdicts operators gave: <<request, verdict>>

gate == <<phase, given>>

Undecided(r) == <<r, "approve">> \notin given /\ <<r, "reject">> \notin given

Step(r, from, to) ==
    /\ phase[r] \in from
    /\ phase' = [phase EXCEPT ![r] = to]
    /\ UNCHANGED given

\* A new request passes, is held, or meets the pending limit.
Arrive(r) == \E to \in {"cleared", "pending", "refused"} : Step(r, {"new"}, to)

\* One verdict for each request that was held.
Give(r, v) ==
    /\ phase[r] \in {"pending", "refused", "gone"} /\ Undecided(r)
    /\ given' = given \cup {<<r, v>>}
    /\ UNCHANGED phase

Approve(r) == <<r, "approve">> \in given /\ Step(r, {"pending"}, "cleared")
Reject(r)  == <<r, "reject">> \in given /\ Step(r, {"pending"}, "refused")
Expire(r)  == Step(r, {"pending"}, "refused")

Pass(r)   == Step(r, {"cleared"}, "sent")
Answer(r) == Step(r, {"sent"}, "answered")

\* The client disconnects.
Leave(r) == Step(r, {"pending", "sent"}, "gone")

Init == phase = [r \in Requests |-> "new"] /\ given = {}

Next ==
    \E r \in Requests :
        \/ Arrive(r) \/ Approve(r) \/ Reject(r) \/ Expire(r)
        \/ Pass(r) \/ Answer(r) \/ Leave(r)
        \/ \E v \in {"approve", "reject"} : Give(r, v)

Spec == Init /\ [][Next]_gate
=============================================================================
