---------------------------- MODULE Backpressure ----------------------------
(***************************************************************************)
(* The two bounded outbound queues of a session and the two read loops     *)
(* that queue frames on them.  Every stream carries a body in both         *)
(* directions; a read loop answers a data frame with a WindowUpdate, and   *)
(* the agent's answers a Ping with a Pong.  Bodies are read at once: body  *)
(* queues, and streams that open and close, are in FlowControl.            *)
(*                                                                         *)
(* A bounded tokio channel lets its waiting senders in first come, first   *)
(* served.  So out holds the frames queued and, behind position Queue, the *)
(* frames of the senders that wait for room.                               *)
(***************************************************************************)
EXTENDS Integers, Sequences, FiniteSets

CONSTANTS
    Window,   \* frames the initial windows of all streams of one end pay for
    Tasks,    \* body tasks of one end, each with one frame in hand at most
    Pings,    \* bound: pings without an answer
    Queue,    \* OUTBOUND_QUEUE
    Pipe      \* frames the transport holds in one direction

VARIABLES
    out,      \* out[e]: frames of e queued or waiting to be, in order
    pipe,     \* pipe[e]: frames on their way from e
    credit,   \* credit[e]: permits of the send_credit of all streams at e
    pinging   \* pings without an answer

vars == <<out, pipe, credit, pinging>>

Ends == {"edge", "agent"}
Other(e) == IF e = "edge" THEN "agent" ELSE "edge"
Frames == {"data", "credit", "ping", "pong"}

Init ==
    /\ out = [e \in Ends |-> <<>>]
    /\ pipe = [e \in Ends |-> <<>>]
    /\ credit = [e \in Ends |-> Window]
    /\ pinging = 0

\* The places in out[e] of senders of F that wait for room in the queue.
Waiting(e, F) == {i \in Queue + 1 .. Len(out[e]) : out[e][i] \in F}

\* The read loop of e waits.
LoopWaits(e) == Waiting(e, {"credit", "pong"}) # {}

\* Session::send and SessionCtx::send
Send(e, f) == out' = [out EXCEPT ![e] = Append(@, f)]

\* send_stream_data and send_payload: a body task of e with credit.
SendData(e) ==
    /\ credit[e] > 0 /\ Cardinality(Waiting(e, {"data"})) < Tasks
    /\ Send(e, "data")
    /\ credit' = [credit EXCEPT ![e] = @ - 1]
    /\ UNCHANGED <<pipe, pinging>>

\* The heartbeat sends one ping after the other.
SendPing ==
    /\ pinging < Pings /\ Waiting("edge", {"ping"}) = {}
    /\ Send("edge", "ping")
    /\ pinging' = pinging + 1
    /\ UNCHANGED <<pipe, credit>>

\* External: gRPC takes the next frame when it has room, and a sender may go on.
Transmit(e) ==
    /\ out[e] # <<>> /\ Len(pipe[e]) < Pipe
    /\ pipe' = [pipe EXCEPT ![e] = Append(@, Head(out[e]))]
    /\ out' = [out EXCEPT ![e] = Tail(@)]
    /\ UNCHANGED <<credit, pinging>>

\* handle_client_frame and handle_server_frame: one frame, and room for the answer,
\* at a time.
HandleFrame(e) ==
    /\ ~LoopWaits(e) /\ pipe[Other(e)] # <<>>
    /\ pipe' = [pipe EXCEPT ![Other(e)] = Tail(@)]
    /\ LET f == Head(pipe[Other(e)]) IN
       \/ f = "data" /\ Send(e, "credit") /\ UNCHANGED <<credit, pinging>>
       \/ f = "ping" /\ Send(e, "pong") /\ UNCHANGED <<credit, pinging>>
       \/ f = "pong" /\ pinging' = pinging - 1 /\ UNCHANGED <<out, credit>>
       \/ f = "credit" /\ credit' = [credit EXCEPT ![e] = @ + 1] /\ UNCHANGED <<out, pinging>>

Next ==
    \/ \E e \in Ends : SendData(e) \/ Transmit(e) \/ HandleFrame(e)
    \/ SendPing

Spec == Init /\ [][Next]_vars

-----------------------------------------------------------------------------
(* What the source says and the code does not do. *)

\* "if it fills, the session is genuinely slower than its offered load and blocking
\* is the correct response" (session.rs, OUTBOUND_QUEUE), so slower and never stuck:
\* while a read loop waits for room in its queue, the transport can take a frame or
\* the other read loop can handle one.
SomebodyMoves ==
    (\E e \in Ends : LoopWaits(e)) =>
        \E e \in Ends :
            \/ out[e] # <<>> /\ Len(pipe[e]) < Pipe
            \/ ~LoopWaits(e) /\ pipe[Other(e)] # <<>>
=============================================================================
