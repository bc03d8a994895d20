---------------------------- MODULE FlowControl -----------------------------
(***************************************************************************)
(* The per-stream byte window, in one direction of one session.            *)
(*                                                                         *)
(* Both directions run the same protocol.  Public uploads: the sender is   *)
(* Session::send_stream_data on the edge and the receiver the Data arm of  *)
(* the agent's read loop.  Responses: the sender is send_payload in the    *)
(* agent and the receiver the Data arm of the edge's read loop, with       *)
(* Session::on_stream_data.  A sender takes credit from a semaphore before *)
(* it queues a frame; the receiving read loop moves the frame into the     *)
(* stream's body queue and returns the credit with a WindowUpdate.         *)
(*                                                                         *)
(* Every frame of stream x carries Chunk[x] bytes.  Frames and updates on  *)
(* their way are counted per stream; the single read loop, whose handling  *)
(* of one frame holds up every stream, is kept as it is.                   *)
(***************************************************************************)
EXTENDS Naturals

CONSTANTS
    Streams,   \* stream ids
    Window,    \* initial_window, in bytes
    Chunk,     \* Chunk[x]: bytes per frame of stream x, at most MAX_CHUNK
    Frames,    \* bound: frames in the body of each stream
    Buffer,    \* STREAM_BUFFER_FRAMES, BODY_QUEUE: capacity of a body queue
    Slow,      \* streams whose reader may stop reading for good
    NoStream

ASSUME WindowAssumption == Window \in Nat /\ Frames \in Nat /\ Buffer \in Nat \ {0}
ASSUME ChunkAssumption == Chunk \in [Streams -> Nat \ {0}]
ASSUME StreamsAssumption == NoStream \notin Streams /\ Slow \subseteq Streams

VARIABLES
    toSend,    \* frames of the body the sender has not started on
    credit,    \* permits of the sender's semaphore
    hand,      \* frames whose credit is spent and that are not queued yet
    flying,    \* data frames on their way
    loop,      \* the stream whose frame the receiving read loop is handling
    stage,     \* ... and how far it is: "idle", "buffer" or "grant"
    buffered,  \* frames in the stream's body queue
    granting,  \* window updates on their way back
    delivered, \* frames the reader of the body has taken
    reading,   \* is the body queue's reading end alive?
    recvOpen,  \* has the receiving end an entry for the stream?
    sendOpen   \* has the sending end one, and so its semaphore open?

vars == <<toSend, credit, hand, flying, loop, stage, buffered, granting,
          delivered, reading, recvOpen, sendOpen>>

TypeOK ==
    /\ toSend \in [Streams -> 0 .. Frames]
    /\ credit \in [Streams -> Nat]
    /\ hand \in [Streams -> 0 .. 1]
    /\ flying \in [Streams -> Nat]
    /\ loop \in Streams \cup {NoStream}
    /\ stage \in {"idle", "buffer", "grant"}
    /\ buffered \in [Streams -> 0 .. Buffer]
    /\ granting \in [Streams -> Nat]
    /\ delivered \in [Streams -> Nat]
    /\ reading \in [Streams -> BOOLEAN]
    /\ recvOpen \in [Streams -> BOOLEAN]
    /\ sendOpen \in [Streams -> BOOLEAN]
    /\ stage = "idle" <=> loop = NoStream

\* The stream was opened: both ends have an entry and a full window.
Init ==
    /\ toSend = [x \in Streams |-> Frames]
    /\ credit = [x \in Streams |-> Window]
    /\ hand = [x \in Streams |-> 0]
    /\ flying = [x \in Streams |-> 0]
    /\ loop = NoStream
    /\ stage = "idle"
    /\ buffered = [x \in Streams |-> 0]
    /\ granting = [x \in Streams |-> 0]
    /\ delivered = [x \in Streams |-> 0]
    /\ reading = [x \in Streams |-> TRUE]
    /\ recvOpen = [x \in Streams |-> TRUE]
    /\ sendOpen = [x \in Streams |-> TRUE]

-----------------------------------------------------------------------------
(* The sender. *)

\* mutant: the permit is not forgotten and goes back when it is dropped
Acquire_NotForgotten(x) ==
    /\ sendOpen[x] /\ hand[x] = 0 /\ toSend[x] > 0 /\ credit[x] >= Chunk[x]
    /\ hand' = [hand EXCEPT ![x] = 1]
    /\ toSend' = [toSend EXCEPT ![x] = @ - 1]
    /\ UNCHANGED <<credit, flying, loop, stage, buffered, granting, delivered,
                   reading, recvOpen, sendOpen>>

\* credit.acquire_many(chunk.len()) and permit.forget(): wait for enough credit
\* for the whole frame, and spend it.
Acquire(x) ==
    /\ sendOpen[x]
    /\ hand[x] = 0 /\ toSend[x] > 0
    /\ credit[x] >= Chunk[x]
    /\ credit' = [credit EXCEPT ![x] = @ - Chunk[x]]
    /\ hand' = [hand EXCEPT ![x] = 1]
    /\ toSend' = [toSend EXCEPT ![x] = @ - 1]
    /\ UNCHANGED <<flying, loop, stage, buffered, granting, delivered, reading,
                   recvOpen, sendOpen>>

\* The frame is queued for the peer.
Send(x) ==
    /\ hand[x] = 1
    /\ flying' = [flying EXCEPT ![x] = @ + 1]
    /\ hand' = [hand EXCEPT ![x] = 0]
    /\ UNCHANGED <<toSend, credit, loop, stage, buffered, granting, delivered,
                   reading, recvOpen, sendOpen>>

\* The stream is torn down at the sending end: a parked sender wakes up and the
\* rest of the body is abandoned.
CloseSender(x) ==
    /\ sendOpen[x]
    /\ sendOpen' = [sendOpen EXCEPT ![x] = FALSE]
    /\ toSend' = [toSend EXCEPT ![x] = 0]
    /\ UNCHANGED <<credit, hand, flying, loop, stage, buffered, granting,
                   delivered, reading, recvOpen>>

\* mutant: the update is taken for the new size of the window
ApplyGrant_Absolute(x) ==
    /\ granting[x] > 0
    /\ granting' = [granting EXCEPT ![x] = @ - 1]
    /\ credit' = IF sendOpen[x] THEN [credit EXCEPT ![x] = Window] ELSE credit
    /\ UNCHANGED <<toSend, hand, flying, loop, stage, buffered, delivered,
                   reading, recvOpen, sendOpen>>

\* WindowUpdate arrives at the sender: permits are added while it has an entry.
ApplyGrant(x) ==
    /\ granting[x] > 0
    /\ granting' = [granting EXCEPT ![x] = @ - 1]
    /\ credit' = IF sendOpen[x] THEN [credit EXCEPT ![x] = @ + Chunk[x]] ELSE credit
    /\ UNCHANGED <<toSend, hand, flying, loop, stage, buffered, delivered,
                   reading, recvOpen, sendOpen>>

-----------------------------------------------------------------------------
(* The receiving read loop: one frame at a time. *)

\* A data frame is read.  Without an entry for its stream it is dropped, and no
\* credit goes back.
Receive(x) ==
    /\ stage = "idle"
    /\ flying[x] > 0
    /\ flying' = [flying EXCEPT ![x] = @ - 1]
    /\ IF recvOpen[x] THEN loop' = x /\ stage' = "buffer" ELSE UNCHANGED <<loop, stage>>
    /\ UNCHANGED <<toSend, credit, hand, buffered, granting, delivered, reading,
                   recvOpen, sendOpen>>

\* mutant: an unbounded body queue
Enqueue_Unbounded(x) ==
    /\ loop = x /\ stage = "buffer"
    /\ reading[x]
    /\ buffered' = [buffered EXCEPT ![x] = @ + 1]
    /\ stage' = "grant"
    /\ UNCHANGED <<toSend, credit, hand, flying, loop, granting, delivered,
                   reading, recvOpen, sendOpen>>

\* mutant: a frame for a full body queue is dropped
Enqueue_DropsWhenFull(x) ==
    /\ loop = x /\ stage = "buffer"
    /\ reading[x]
    /\ buffered' = [buffered EXCEPT ![x] = IF @ < Buffer THEN @ + 1 ELSE @]
    /\ stage' = "grant"
    /\ UNCHANGED <<toSend, credit, hand, flying, loop, granting, delivered,
                   reading, recvOpen, sendOpen>>

\* body_tx.send succeeds once the body queue has room.
Enqueue(x) ==
    /\ loop = x /\ stage = "buffer"
    /\ reading[x] /\ buffered[x] < Buffer
    /\ buffered' = [buffered EXCEPT ![x] = @ + 1]
    /\ stage' = "grant"
    /\ UNCHANGED <<toSend, credit, hand, flying, loop, granting, delivered,
                   reading, recvOpen, sendOpen>>

\* mutant: a body channel without a reader is taken for a full one
Discard_Retries(x) ==
    /\ loop = x /\ stage = "buffer"
    /\ ~reading[x]
    /\ UNCHANGED vars

\* body_tx.send fails because nobody reads the body any more: the entry goes.
Discard(x) ==
    /\ loop = x /\ stage = "buffer"
    /\ ~reading[x]
    /\ recvOpen' = [recvOpen EXCEPT ![x] = FALSE]
    /\ loop' = NoStream /\ stage' = "idle"
    /\ UNCHANGED <<toSend, credit, hand, flying, buffered, granting, delivered,
                   reading, sendOpen>>

\* mutant: the update is never sent
Grant_Forgotten(x) ==
    /\ loop = x /\ stage = "grant"
    /\ loop' = NoStream /\ stage' = "idle"
    /\ UNCHANGED <<toSend, credit, hand, flying, buffered, granting, delivered,
                   reading, recvOpen, sendOpen>>

\* WindowUpdate is queued for the bytes that were buffered.
Grant(x) ==
    /\ loop = x /\ stage = "grant"
    /\ granting' = [granting EXCEPT ![x] = @ + 1]
    /\ loop' = NoStream /\ stage' = "idle"
    /\ UNCHANGED <<toSend, credit, hand, flying, buffered, delivered, reading,
                   recvOpen, sendOpen>>

\* The stream is torn down at the receiving end (End, Reset, or its guard).
CloseReceiver(x) ==
    /\ recvOpen[x]
    /\ recvOpen' = [recvOpen EXCEPT ![x] = FALSE]
    /\ UNCHANGED <<toSend, credit, hand, flying, loop, stage, buffered, granting,
                   delivered, reading, sendOpen>>

-----------------------------------------------------------------------------
(* The reader of the body: the public client, or the local service. *)

Consume(x) ==
    /\ reading[x] /\ buffered[x] > 0
    /\ buffered' = [buffered EXCEPT ![x] = @ - 1]
    /\ delivered' = [delivered EXCEPT ![x] = @ + 1]
    /\ UNCHANGED <<toSend, credit, hand, flying, loop, stage, granting, reading,
                   recvOpen, sendOpen>>

\* The reader hangs up and the queued frames are lost.
HangUp(x) ==
    /\ reading[x]
    /\ reading' = [reading EXCEPT ![x] = FALSE]
    /\ buffered' = [buffered EXCEPT ![x] = 0]
    /\ UNCHANGED <<toSend, credit, hand, flying, loop, stage, granting,
                   delivered, recvOpen, sendOpen>>

-----------------------------------------------------------------------------
Transfer(x) ==
    \/ Acquire(x) \/ Send(x) \/ ApplyGrant(x)
    \/ Receive(x) \/ Enqueue(x) \/ Discard(x) \/ Grant(x)

Teardown(x) == CloseSender(x) \/ CloseReceiver(x) \/ HangUp(x)

Next == \E x \in Streams : Transfer(x) \/ Consume(x) \/ Teardown(x)

Spec == Init /\ [][Next]_vars

\* Both read loops, and every sender that has credit, keep running; all readers
\* but the slow ones keep reading.  Nobody has to tear a stream down.
Fairness ==
    /\ \A x \in Streams :
          /\ WF_vars(Acquire(x)) /\ WF_vars(Send(x)) /\ WF_vars(ApplyGrant(x))
          /\ SF_vars(Receive(x))
          /\ WF_vars(Enqueue(x)) /\ WF_vars(Discard(x)) /\ WF_vars(Grant(x))
    /\ \A x \in Streams \ Slow : WF_vars(Consume(x))

FairSpec == Spec /\ Fairness

-----------------------------------------------------------------------------
(* Properties. *)

\* Frames of x in the hands of the read loop.
InLoop(x) == IF loop = x THEN 1 ELSE 0

\* Frames of x whose credit is spent and not yet back.
Outstanding(x) == hand[x] + flying[x] + InLoop(x) + granting[x]

\* No byte of credit is lost or invented while both ends know the stream: what
\* the sender holds and what is under way add up to the initial window.
CreditConserved ==
    \A x \in Streams : sendOpen[x] /\ recvOpen[x] =>
        credit[x] + Chunk[x] * Outstanding(x) = Window

\* Late frames and updates of a stream torn down at one end never push the credit
\* and the bytes on their way above the window.
WindowRespected ==
    \A x \in Streams : credit[x] + Chunk[x] * Outstanding(x) <= Window

\* Neither end has forgotten the stream and somebody reads its body.
Whole(x) == sendOpen[x] /\ recvOpen[x] /\ reading[x]

\* However many frames and updates went before, a whole stream whose frames fit the
\* window is never stuck: until its body is delivered there is a frame for its reader
\* to take, a frame or an update is on its way, or the sender can pay for its next
\* frame.  So sender and receiver never wait for each other.
NeverStuck ==
    \A x \in Streams : Whole(x) /\ Chunk[x] <= Window /\ delivered[x] < Frames =>
        \/ buffered[x] > 0
        \/ Outstanding(x) > 0
        \/ toSend[x] > 0 /\ credit[x] >= Chunk[x]

\* A slow reader holds the read loop up: its body queue is full.
HeldUp == loop \in Slow /\ stage = "buffer" /\ buffered[loop] = Buffer

\* A read body reaches its reader in full, however many streams share the two
\* read loops, unless somebody tears that stream down or a slow reader holds the
\* read loop up for good.
BodyDelivered ==
    \A x \in Streams \ Slow :
        \/ <>(delivered[x] = Frames \/ ~sendOpen[x] \/ ~recvOpen[x] \/ ~reading[x])
        \/ <>[]HeldUp

\* The read loop always gets back to reading frames.  The one thing that can stop it
\* is a slow reader's full body queue, although "one slow local handler cannot stall
\* the session's control traffic" (agent.rs): closed streams, late frames and
\* readers that are gone never do.
ReadLoopReturns == []<>(stage = "idle") \/ <>[]HeldUp
=============================================================================
