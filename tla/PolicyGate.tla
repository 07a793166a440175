----------------------------- MODULE PolicyGate -----------------------------
(***************************************************************************)
(* What the server connector promises its operator, without saying how:    *)
(* a request is cleared before it can be delivered to Relay, a refusal is  *)
(* given instead of a clearance and never after one, success means that    *)
(* Relay has the request, and an outcome is final.  A cleared request may  *)
(* still be delivered after its outcome is known.                          *)
(***************************************************************************)
CONSTANT Requests

VARIABLES cleared,   \* requests handed to the HTTP client
          delivered, \* requests Relay has received
          outcome    \* the outcome of each request

gatevars == <<cleared, delivered, outcome>>

Open(q) == outcome[q] = "open"
End(q, how) == outcome' = [outcome EXCEPT ![q] = how]

Init ==
    /\ cleared = {}
    /\ delivered = {}
    /\ outcome = [q \in Requests |-> "open"]

Clear(q) ==
    /\ Open(q) /\ q \notin cleared
    /\ cleared' = cleared \cup {q}
    /\ UNCHANGED <<delivered, outcome>>

Deliver(q) ==
    /\ q \in cleared \ delivered
    /\ delivered' = delivered \cup {q}
    /\ UNCHANGED <<cleared, outcome>>

Refuse(q) ==
    /\ Open(q) /\ q \notin cleared
    /\ End(q, "denied")
    /\ UNCHANGED <<cleared, delivered>>

Succeed(q) ==
    /\ Open(q) /\ q \in delivered
    /\ End(q, "forwarded")
    /\ UNCHANGED <<cleared, delivered>>

\* A failure of the connector or of Relay, a timeout, or a caller gone away.
GiveUp(q) ==
    /\ Open(q)
    /\ \E how \in {"failed", "timed_out", "dropped"} : End(q, how)
    /\ UNCHANGED <<cleared, delivered>>

Next == \E q \in Requests : Clear(q) \/ Deliver(q) \/ Refuse(q) \/ Succeed(q) \/ GiveUp(q)

Spec == Init /\ [][Next]_gatevars
=============================================================================
