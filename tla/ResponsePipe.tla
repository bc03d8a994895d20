---------------------------- MODULE ResponsePipe ----------------------------
(***************************************************************************)
(* What a tunnel promises the public client of a request, without streams, *)
(* frames, credit or tasks.  Either it gets an error page and nothing of   *)
(* the response, or it gets the response from its beginning, never more of *)
(* it than the local service has produced; and as long as the request is   *)
(* intact a response that ends like a whole one is whole.  Whatever the    *)
(* client got last is the end of the matter.                               *)
(***************************************************************************)
EXTENDS Integers

CONSTANTS
    Requests,   \* public requests
    Body        \* chunks in every response body

VARIABLES
    status,     \* where the client is with the request, see Statuses
    produced,   \* chunks the local service has produced
    received,   \* chunks the public client got
    intact      \* the connection holds and the client's upload did not fail

pipeVars == <<status, produced, received, intact>>

Statuses == {"asked", "answering", "refused", "complete", "cut", "left"}

PipeInit ==
    /\ status = [q \in Requests |-> "asked"]
    /\ produced = [q \in Requests |-> 0]
    /\ received = [q \in Requests |-> 0]
    /\ intact = [q \in Requests |-> TRUE]

Becomes(q, s) ==
    /\ status' = [status EXCEPT ![q] = s]
    /\ UNCHANGED <<produced, received, intact>>

\* An error page instead of a response.
Refuse(q) == status[q] = "asked" /\ Becomes(q, "refused")

\* The head of the response.
Answer(q) == status[q] = "asked" /\ Becomes(q, "answering")

\* The local service produces a chunk; it may do so after the client has left.
Produce(q) ==
    /\ produced[q] < Body
    /\ produced' = [produced EXCEPT ![q] = @ + 1]
    /\ UNCHANGED <<status, received, intact>>

\* A chunk reaches the client.
Receive(q) ==
    /\ status[q] = "answering" /\ received[q] < produced[q]
    /\ received' = [received EXCEPT ![q] = @ + 1]
    /\ UNCHANGED <<status, produced, intact>>

\* The response ends like a whole one.
Complete(q) ==
    /\ status[q] = "answering"
    /\ intact[q] => received[q] = Body
    /\ Becomes(q, "complete")

\* The client is told that the response breaks off.
Cut(q) == status[q] = "answering" /\ Becomes(q, "cut")

\* The client hangs up.
Leave(q) == status[q] \in {"asked", "answering"} /\ Becomes(q, "left")

\* The connection or uploads fail.
Break(Q) ==
    /\ intact' = [q \in Requests |-> intact[q] /\ q \notin Q]
    /\ UNCHANGED <<status, produced, received>>

PipeNext ==
    \/ \E q \in Requests :
          \/ Refuse(q) \/ Answer(q) \/ Produce(q) \/ Receive(q)
          \/ Complete(q) \/ Cut(q) \/ Leave(q)
    \/ \E Q \in SUBSET Requests : Break(Q)

PipeSpec == PipeInit /\ [][PipeNext]_pipeVars
=============================================================================
