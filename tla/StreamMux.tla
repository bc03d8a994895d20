----------------------------- MODULE StreamMux ------------------------------
(***************************************************************************)
(* Public requests multiplexed as streams over one agent session.          *)
(*                                                                         *)
(* On the edge: the ingress task of every request (forward_local and       *)
(* open_http_stream), its upload pump and response body with the guard     *)
(* that ends it (build_response, StreamGuard), and the session's read loop *)
(* (handle_client_frame).  On the agent: the read loop                     *)
(* (handle_server_frame) and one serve_stream task per stream.             *)
(*                                                                         *)
(* A stream id is used once, so a stream is named by its request.  Frames  *)
(* travel in order within a stream.  Bodies are counted in frames, credit  *)
(* for responses too; body queues and upload credit are in FlowControl.    *)
(***************************************************************************)
EXTENDS Integers, Sequences, FiniteSets

CONSTANTS
    Requests,    \* public requests, each with its stream
    Limit,       \* principal.limits.max_concurrent_streams; 0 is unlimited
    Wrap,        \* open_streams is an AtomicU64: 2^64
    Body,        \* frames in every response body
    Window,      \* response frames the initial window pays for
    QueueFills,  \* can the session's outbound queue be full?
    ReadsBody,   \* do local services read request bodies to their end?
    MayBreak     \* can the connection break?

ASSUME SizesAssumption == Limit \in Nat /\ Body \in Nat /\ Window \in Nat
ASSUME WrapAssumption == Wrap \in Nat /\ IsFiniteSet(Requests) /\ Cardinality(Requests) < Wrap
ASSUME FlagAssumption ==
    QueueFills \in BOOLEAN /\ ReadsBody \in BOOLEAN /\ MayBreak \in BOOLEAN

VARIABLES
    \* the edge
    handler,     \* how far the request's ingress task is, see HandlerSteps
    entry,       \* is the stream in Session.streams?
    openStreams, \* Session.open_streams
    closing,     \* streams out of the table that close_stream has not counted down
    raced,       \* history: requests that passed the limit test in a race, see Admit
    head,        \* the head channel: "pending", "sent" or "dropped"
    body,        \* the stream's body queue
    pump,        \* the upload pump, see PumpSteps
    received,    \* response frames the public client got
    outcome,     \* how the request ended for the public client
    \* the connection
    link,        \* see Links
    doomed,      \* streams close_all_streams still has to close
    toAgent,     \* frames on their way to the agent, per stream
    toEdge,      \* frames on their way to the edge, per stream
    \* the agent
    agentHas,    \* is the stream in SessionCtx.streams?
    task,        \* the serve_stream task, see TaskSteps
    left,        \* response frames the local service has not produced
    credit,      \* permits of the stream's send_credit
    reading,     \* does the local request still read the body channel?
    uploaded     \* has the request body ended for the local service?

countVars == <<openStreams, closing, raced>>
edgeVars  == <<handler, entry, countVars, head, body, pump, received, outcome>>
linkVars  == <<link, doomed>>
netVars   == <<toAgent, toEdge>>
agentVars == <<agentHas, task, left, credit, reading, uploaded>>
vars == <<edgeVars, linkVars, netVars, agentVars>>

\* "admitted": past the limit test; "inserted": in the table and not counted;
\* "opening": counted, Open not queued yet; "waiting": for the response head.
HandlerSteps == {"idle", "admitted", "inserted", "opening", "waiting", "answering", "over"}
PumpSteps == {"none", "data", "end", "ended", "failed", "abandoned"}
TaskSteps == {"none", "serving", "body", "done"}
Outcomes == {"none", "404", "502", "503", "504", "finished", "aborted", "hung up", "gone"}
\* "down": broken, the edge has not noticed; "closing": in close_all_streams.
Links == {"up", "down", "closing", "closed"}
EdgeFrames == {"open", "data", "end", "reset", "credit"}
AgentFrames == {"head", "data", "end", "reset"}

TypeOK ==
    /\ handler \in [Requests -> HandlerSteps]
    /\ entry \in [Requests -> BOOLEAN]
    /\ openStreams \in 0 .. Wrap - 1
    /\ closing \in SUBSET Requests /\ raced \in SUBSET Requests
    /\ head \in [Requests -> {"pending", "sent", "dropped"}]
    /\ body \in [Requests -> Seq({"data", "end", "reset"})]
    /\ pump \in [Requests -> PumpSteps]
    /\ received \in [Requests -> 0 .. Body]
    /\ outcome \in [Requests -> Outcomes]
    /\ link \in Links
    /\ doomed \in SUBSET Requests
    /\ toAgent \in [Requests -> Seq(EdgeFrames)]
    /\ toEdge \in [Requests -> Seq(AgentFrames)]
    /\ agentHas \in [Requests -> BOOLEAN]
    /\ task \in [Requests -> TaskSteps]
    /\ left \in [Requests -> 0 .. Body]
    /\ credit \in [Requests -> 0 .. Window]
    /\ reading \in [Requests -> BOOLEAN]
    /\ uploaded \in [Requests -> BOOLEAN]

Init ==
    /\ handler = [q \in Requests |-> "idle"]
    /\ entry = [q \in Requests |-> FALSE]
    /\ openStreams = 0 /\ closing = {} /\ raced = {}
    /\ head = [q \in Requests |-> "pending"]
    /\ body = [q \in Requests |-> <<>>]
    /\ pump = [q \in Requests |-> "none"]
    /\ received = [q \in Requests |-> 0]
    /\ outcome = [q \in Requests |-> "none"]
    /\ link = "up"
    /\ doomed = {}
    /\ toAgent = [q \in Requests |-> <<>>]
    /\ toEdge = [q \in Requests |-> <<>>]
    /\ agentHas = [q \in Requests |-> FALSE]
    /\ task = [q \in Requests |-> "none"]
    /\ left = [q \in Requests |-> Body]
    /\ credit = [q \in Requests |-> 0]
    /\ reading = [q \in Requests |-> TRUE]
    /\ uploaded = [q \in Requests |-> FALSE]

-----------------------------------------------------------------------------
(* Session::close_stream and the two ways of queueing a frame. *)

\* mutant: a stream that was closed before is counted down again
CloseStream_CountsTwice(q) ==
    /\ entry' = [entry EXCEPT ![q] = FALSE]
    /\ closing' = closing \cup {q}
    /\ UNCHANGED <<openStreams, raced, head>>

\* The entry goes and the semaphore closes; only the first call goes on to the counter.
CloseStream(q) ==
    /\ entry' = [entry EXCEPT ![q] = FALSE]
    /\ closing' = IF entry[q] THEN closing \cup {q} ELSE closing
    /\ UNCHANGED <<openStreams, raced, head>>

\* mutant: a signed counter
CountDown_Signed(q) ==
    /\ q \in closing
    /\ closing' = closing \ {q}
    /\ openStreams' = openStreams - 1
    /\ head' = [head EXCEPT ![q] = IF @ = "pending" THEN "dropped" ELSE @]
    /\ UNCHANGED <<handler, entry, raced, body, pump, received, outcome, linkVars,
                   netVars, agentVars>>

\* The rest of close_stream: open_streams.fetch_sub, and with the stream its head and
\* body channels go.  Only the counter's readers can tell when, so what the closing
\* thread does next is part of its own action and need not come after this one.
CountDown(q) ==
    /\ q \in closing
    /\ closing' = closing \ {q}
    /\ openStreams' = (openStreams + Wrap - 1) % Wrap
    /\ head' = [head EXCEPT ![q] = IF @ = "pending" THEN "dropped" ELSE @]
    /\ UNCHANGED <<handler, entry, raced, body, pump, received, outcome, linkVars,
                   netVars, agentVars>>

\* Session::send; frames queued for a broken connection are lost.
SendToAgent(q, f) ==
    toAgent' = [toAgent EXCEPT ![q] = IF link = "up" THEN Append(@, f) ELSE @]

\* Session::try_send: fails on a full queue.
TrySendToAgent(q, f) == SendToAgent(q, f) \/ (QueueFills /\ UNCHANGED toAgent)

\* The handler's last step: the public client sees o.
Finish(q, o) ==
    /\ handler' = [handler EXCEPT ![q] = "over"]
    /\ outcome' = [outcome EXCEPT ![q] = o]

-----------------------------------------------------------------------------
(* open_http_stream *)

\* Requests between the limit test and the count.
Between == {q \in Requests : handler[q] \in {"admitted", "inserted"}}

\* mutant: one stream more
Admit_OneMore(q) ==
    /\ handler[q] = "idle"
    /\ IF Limit > 0 /\ openStreams > Limit
       THEN Finish(q, "503") /\ UNCHANGED raced
       ELSE /\ handler' = [handler EXCEPT ![q] = "admitted"]
            /\ raced' = IF Between = {} THEN raced ELSE raced \cup {q}
            /\ UNCHANGED outcome
    /\ UNCHANGED <<entry, openStreams, closing, head, body, pump, received, linkVars,
                   netVars, agentVars>>

\* The limit test; it refuses the request or lets it go on.
Admit(q) ==
    /\ handler[q] = "idle"
    /\ IF Limit > 0 /\ openStreams >= Limit
       THEN Finish(q, "503") /\ UNCHANGED raced
       ELSE /\ handler' = [handler EXCEPT ![q] = "admitted"]
            /\ raced' = IF Between = {} THEN raced ELSE raced \cup {q}
            /\ UNCHANGED outcome
    /\ UNCHANGED <<entry, openStreams, closing, head, body, pump, received, linkVars,
                   netVars, agentVars>>

\* streams.insert
Insert(q) ==
    /\ handler[q] = "admitted"
    /\ handler' = [handler EXCEPT ![q] = "inserted"]
    /\ entry' = [entry EXCEPT ![q] = TRUE]
    /\ UNCHANGED <<countVars, head, body, pump, received, outcome, linkVars,
                   netVars, agentVars>>

\* open_streams.fetch_add
Count(q) ==
    /\ handler[q] = "inserted"
    /\ handler' = [handler EXCEPT ![q] = "opening"]
    /\ openStreams' = (openStreams + 1) % Wrap
    /\ UNCHANGED <<entry, closing, raced, head, body, pump, received, outcome, linkVars,
                   netVars, agentVars>>

\* Open is queued and the upload pump spawned, for a request with or without a
\* body.  After the connection broke the queue may still take the frame.
OpenSent(q) ==
    /\ handler[q] = "opening"
    /\ handler' = [handler EXCEPT ![q] = "waiting"]
    /\ pump' \in {[pump EXCEPT ![q] = p] : p \in {"data", "end"}}
    /\ SendToAgent(q, "open")
    /\ UNCHANGED <<entry, countVars, head, body, received, outcome, linkVars,
                   toEdge, agentVars>>

\* The queue is closed: OpenError::SessionGone.
OpenFailed(q) ==
    /\ handler[q] = "opening" /\ link # "up"
    /\ CloseStream(q)
    /\ Finish(q, "404")
    /\ UNCHANGED <<body, pump, received, linkVars, netVars, agentVars>>

-----------------------------------------------------------------------------
(* The upload pump of forward_local. *)

\* A frame of the request body: queued while the stream's semaphore is open,
\* else send_stream_data returns false and the pump stops.
PumpData(q) ==
    /\ pump[q] = "data"
    /\ pump' = [pump EXCEPT ![q] = IF entry[q] THEN "end" ELSE "abandoned"]
    /\ IF entry[q] THEN SendToAgent(q, "data") ELSE UNCHANGED toAgent
    /\ UNCHANGED <<handler, entry, countVars, head, body, received, outcome,
                   linkVars, toEdge, agentVars>>

\* The request body is complete: send_stream_end.
PumpEnd(q) ==
    /\ pump[q] = "end"
    /\ pump' = [pump EXCEPT ![q] = "ended"]
    /\ SendToAgent(q, "end")
    /\ UNCHANGED <<handler, entry, countVars, head, body, received, outcome,
                   linkVars, toEdge, agentVars>>

\* mutant: a failed read ends the loop like the end of the body
PumpFail_Ends(q) ==
    /\ pump[q] \in {"data", "end"}
    /\ pump' = [pump EXCEPT ![q] = "failed"]
    /\ SendToAgent(q, "end")
    /\ UNCHANGED <<handler, entry, countVars, head, body, received, outcome,
                   linkVars, toEdge, agentVars>>

\* Reading the request body fails, before or after a frame of it: reset_stream.
PumpFail(q) ==
    /\ pump[q] \in {"data", "end"}
    /\ pump' = [pump EXCEPT ![q] = "failed"]
    /\ CloseStream(q)
    /\ SendToAgent(q, "reset")
    /\ UNCHANGED <<handler, body, received, outcome, linkVars, toEdge, agentVars>>

-----------------------------------------------------------------------------
(* Waiting for the response head. *)

HeadArrived(q) ==
    /\ handler[q] = "waiting" /\ head[q] = "sent"
    /\ handler' = [handler EXCEPT ![q] = "answering"]
    /\ UNCHANGED <<entry, countVars, head, body, pump, received, outcome,
                   linkVars, netVars, agentVars>>

\* The stream was torn down before a head came.
HeadDropped(q) ==
    /\ handler[q] = "waiting" /\ head[q] = "dropped"
    /\ CloseStream(q)
    /\ Finish(q, "502")
    /\ UNCHANGED <<body, pump, received, linkVars, netVars, agentVars>>

\* mutant: the time limit is on the whole response
HeadTimeout_Whole(q) ==
    /\ handler[q] \in {"waiting", "answering"} /\ head[q] # "dropped"
    /\ CloseStream(q)
    /\ SendToAgent(q, "reset")
    /\ Finish(q, "504")
    /\ UNCHANGED <<body, pump, received, linkVars, toEdge, agentVars>>

\* response_timeout: the agent is told to stop.
HeadTimeout(q) ==
    /\ handler[q] = "waiting" /\ head[q] = "pending"
    /\ CloseStream(q)
    /\ SendToAgent(q, "reset")
    /\ Finish(q, "504")
    /\ UNCHANGED <<body, pump, received, linkVars, toEdge, agentVars>>

\* External: the public client disconnects and the ingress task is dropped, where
\* it awaits the head or, with the queue full, room for Open.  Its stream stays.
HangUpEarly(q) ==
    /\ handler[q] = "waiting" \/ (QueueFills /\ handler[q] = "opening")
    /\ Finish(q, "gone")
    /\ UNCHANGED <<entry, countVars, head, body, pump, received, linkVars,
                   netVars, agentVars>>

-----------------------------------------------------------------------------
(* The response body and its guard. *)

\* mutant: the guard closes the stream and does not tell the agent
DropBody_Quietly(q, o) ==
    /\ CloseStream(q)
    /\ Finish(q, o)
    /\ UNCHANGED toAgent

\* The body is dropped: StreamGuard closes the stream and tries to tell the agent.
DropBody(q, o) ==
    /\ CloseStream(q)
    /\ TrySendToAgent(q, "reset")
    /\ Finish(q, o)

\* A chunk reaches the public client.
Deliver(q) ==
    /\ handler[q] = "answering" /\ body[q] # <<>>
    /\ body' = [body EXCEPT ![q] = Tail(@)]
    /\ \/ /\ Head(body[q]) = "data"
          /\ received' = [received EXCEPT ![q] = @ + 1]
          /\ UNCHANGED <<handler, entry, countVars, head, outcome, toAgent>>
       \/ /\ Head(body[q]) = "end"
          /\ DropBody(q, "finished")
          /\ UNCHANGED received
       \/ /\ Head(body[q]) = "reset"
          /\ DropBody(q, "aborted")
          /\ UNCHANGED received
    /\ UNCHANGED <<pump, linkVars, toEdge, agentVars>>

\* The queue is drained and every sender of it is gone: the body just ends.
BodyRunsOut(q) ==
    /\ handler[q] = "answering" /\ body[q] = <<>> /\ ~entry[q] /\ q \notin closing
    /\ DropBody(q, "finished")
    /\ UNCHANGED <<body, pump, received, linkVars, toEdge, agentVars>>

\* External: the public client disconnects while it receives the body.
HangUpLate(q) ==
    /\ handler[q] = "answering"
    /\ DropBody(q, "hung up")
    /\ UNCHANGED <<body, pump, received, linkVars, toEdge, agentVars>>

-----------------------------------------------------------------------------
(* The read loop of the edge. *)

\* Somebody holds the receiving end of the body queue.
BodyHeld(q) == handler[q] \in {"waiting", "answering"}

\* on_response_head
OnHead(q) ==
    /\ head' = [head EXCEPT ![q] = IF entry[q] /\ @ = "pending" THEN "sent" ELSE @]
    /\ UNCHANGED <<entry, countVars, body, toAgent>>

\* on_stream_data, and grant_window for what was accepted
OnData(q) ==
    \/ entry[q] /\ BodyHeld(q)
       /\ body' = [body EXCEPT ![q] = Append(@, "data")]
       /\ SendToAgent(q, "credit")
       /\ UNCHANGED <<entry, countVars, head>>
    \/ entry[q] /\ ~BodyHeld(q)
       /\ CloseStream(q)
       /\ UNCHANGED <<body, toAgent>>
    \/ ~entry[q]
       /\ UNCHANGED <<entry, countVars, head, body, toAgent>>

\* mutant: the stream is left to the ingress task to close
OnLast_LeavesEntry(q, f) ==
    /\ body' = [body EXCEPT ![q] = IF entry[q] /\ BodyHeld(q) THEN Append(@, f) ELSE @]
    /\ UNCHANGED <<entry, countVars, head, toAgent>>

\* on_stream_end and on_stream_reset
OnLast(q, f) ==
    /\ body' = [body EXCEPT ![q] = IF entry[q] /\ BodyHeld(q) THEN Append(@, f) ELSE @]
    /\ CloseStream(q)
    /\ UNCHANGED toAgent

FromAgent(q) ==
    /\ link \in {"up", "down"} /\ toEdge[q] # <<>>
    /\ toEdge' = [toEdge EXCEPT ![q] = Tail(@)]
    /\ LET f == Head(toEdge[q]) IN
       \/ f = "head" /\ OnHead(q)
       \/ f = "data" /\ OnData(q)
       \/ f \in {"end", "reset"} /\ OnLast(q, f)
    /\ UNCHANGED <<handler, pump, received, outcome, linkVars, agentVars>>

-----------------------------------------------------------------------------
(* The connection. *)

\* External: the connection breaks.  Frames for the agent are lost; what the edge
\* has received already may still be read.
ConnectionLost ==
    /\ MayBreak /\ link = "up"
    /\ link' = "down"
    /\ toAgent' = [q \in Requests |-> <<>>]
    /\ UNCHANGED <<edgeVars, doomed, toEdge, agentVars>>

\* teardown: close_all_streams lists the streams ...
Teardown ==
    /\ link = "down"
    /\ link' = "closing"
    /\ doomed' = {q \in Requests : entry[q]}
    /\ toEdge' = [q \in Requests |-> <<>>]
    /\ UNCHANGED <<edgeVars, toAgent, agentVars>>

\* ... and closes them one by one.
CloseDoomed(q) ==
    /\ link = "closing" /\ q \in doomed
    /\ doomed' = doomed \ {q}
    /\ CloseStream(q)
    /\ UNCHANGED <<handler, body, pump, received, outcome, link, netVars, agentVars>>

Closed ==
    /\ link = "closing" /\ doomed = {}
    /\ link' = "closed"
    /\ UNCHANGED <<edgeVars, doomed, netVars, agentVars>>

-----------------------------------------------------------------------------
(* The read loop of the agent. *)

\* drop_stream: the entry goes, and with it the semaphore and the request body.
DropStream(q) ==
    /\ agentHas' = [agentHas EXCEPT ![q] = FALSE]
    /\ uploaded' = [uploaded EXCEPT ![q] = @ \/ agentHas[q]]

\* Open: the stream is registered before its task is spawned.
AgentOpen(q) ==
    /\ agentHas' = [agentHas EXCEPT ![q] = TRUE]
    /\ credit' = [credit EXCEPT ![q] = Window]
    /\ task' = [task EXCEPT ![q] = "serving"]
    /\ UNCHANGED <<reading, uploaded>>

\* Data: a request that no longer reads its body loses its stream entry.
AgentData(q) ==
    /\ IF reading[q] THEN UNCHANGED <<agentHas, uploaded>> ELSE DropStream(q)
    /\ UNCHANGED <<credit, task, reading>>

\* mutant: the entry goes together with the request body
AgentEnd_DropsEntry(q) ==
    /\ DropStream(q)
    /\ UNCHANGED <<credit, task, reading>>

\* End: close_request_body; the entry stays for the response.
AgentEnd(q) ==
    /\ uploaded' = [uploaded EXCEPT ![q] = @ \/ agentHas[q]]
    /\ UNCHANGED <<agentHas, credit, task, reading>>

\* Reset: a task parked on credit wakes up.
AgentReset(q) ==
    /\ DropStream(q)
    /\ UNCHANGED <<credit, task, reading>>

\* WindowUpdate: permits are added while the entry is there.
AgentCredit(q) ==
    /\ credit' = [credit EXCEPT ![q] = IF agentHas[q] THEN @ + 1 ELSE @]
    /\ UNCHANGED <<agentHas, task, reading, uploaded>>

FromEdge(q) ==
    /\ link = "up" /\ toAgent[q] # <<>>
    /\ toAgent' = [toAgent EXCEPT ![q] = Tail(@)]
    /\ LET f == Head(toAgent[q]) IN
       \/ f = "open" /\ AgentOpen(q)
       \/ f = "data" /\ AgentData(q)
       \/ f = "end" /\ AgentEnd(q)
       \/ f = "reset" /\ AgentReset(q)
       \/ f = "credit" /\ AgentCredit(q)
    /\ UNCHANGED <<edgeVars, linkVars, toEdge, left>>

-----------------------------------------------------------------------------
(* serve_stream *)

\* SessionCtx::send; false once the connection is gone.
SendToEdge(q, f) ==
    toEdge' = [toEdge EXCEPT ![q] = IF link = "up" THEN Append(@, f) ELSE @]

\* The task is over: drop_stream.
EndTask(q) ==
    /\ task' = [task EXCEPT ![q] = "done"]
    /\ DropStream(q)

\* The local service cannot be reached, or fails in the middle of its response.
LocalFails(q) ==
    /\ task[q] = "serving" \/ (task[q] = "body" /\ left[q] > 0)
    /\ SendToEdge(q, "reset")
    /\ EndTask(q)
    /\ UNCHANGED <<edgeVars, linkVars, toAgent, left, credit, reading>>

\* The local service answers: the head goes out and the response body begins.
\* Before the end of the request body it may stop reading it.
LocalAnswers(q) ==
    /\ task[q] = "serving"
    /\ SendToEdge(q, "head")
    /\ IF link = "up" THEN task' = [task EXCEPT ![q] = "body"] /\ UNCHANGED <<agentHas, uploaded>>
                      ELSE EndTask(q)
    /\ reading' \in {[reading EXCEPT ![q] = r] : r \in {TRUE, ReadsBody \/ uploaded[q]}}
    /\ UNCHANGED <<edgeVars, linkVars, toAgent, left, credit>>

\* mutant: a failed send is taken for back-pressure and tried again
SendBody_Retries(q) ==
    /\ task[q] = "body" /\ left[q] > 0
    /\ agentHas[q] /\ credit[q] > 0
    /\ link = "up"
    /\ left' = [left EXCEPT ![q] = @ - 1]
    /\ credit' = [credit EXCEPT ![q] = @ - 1]
    /\ SendToEdge(q, "data")
    /\ UNCHANGED <<edgeVars, linkVars, toAgent, task, agentHas, uploaded, reading>>

\* send_payload with credit for the frame.  A failed send ends the task.
SendBody(q) ==
    /\ task[q] = "body" /\ left[q] > 0
    /\ agentHas[q] /\ credit[q] > 0
    /\ left' = [left EXCEPT ![q] = @ - 1]
    /\ credit' = [credit EXCEPT ![q] = @ - 1]
    /\ SendToEdge(q, "data")
    /\ IF link = "up" THEN UNCHANGED <<task, agentHas, uploaded>> ELSE EndTask(q)
    /\ UNCHANGED <<edgeVars, linkVars, toAgent, reading>>

\* The semaphore is closed: send_payload gives up and nothing more is sent.
SendAborted(q) ==
    /\ task[q] = "body" /\ left[q] > 0
    /\ ~agentHas[q]
    /\ EndTask(q)
    /\ UNCHANGED <<edgeVars, linkVars, netVars, left, credit, reading>>

\* The response body is complete.
SendEnd(q) ==
    /\ task[q] = "body" /\ left[q] = 0
    /\ SendToEdge(q, "end")
    /\ EndTask(q)
    /\ UNCHANGED <<edgeVars, linkVars, toAgent, left, credit, reading>>

-----------------------------------------------------------------------------
Ingress(q) ==
    \/ Admit(q) \/ Insert(q) \/ Count(q) \/ OpenSent(q) \/ OpenFailed(q)
    \/ HeadArrived(q) \/ HeadDropped(q) \/ HeadTimeout(q)
    \/ Deliver(q) \/ BodyRunsOut(q)

Pump(q) == PumpData(q) \/ PumpEnd(q)

ServeStream(q) ==
    LocalAnswers(q) \/ SendBody(q) \/ SendAborted(q) \/ SendEnd(q)

Next ==
    \/ \E q \in Requests :
          \/ Ingress(q) \/ HangUpEarly(q) \/ HangUpLate(q)
          \/ Pump(q) \/ PumpFail(q)
          \/ FromAgent(q) \/ FromEdge(q)
          \/ ServeStream(q) \/ LocalFails(q)
          \/ CloseDoomed(q) \/ CountDown(q)
    \/ ConnectionLost \/ Teardown \/ Closed

Spec == Init /\ [][Next]_vars

\* Tasks and read loops that can run do run, the timeout fires, and a local service
\* that has its whole request answers it and goes on to the end.  The body of a
\* client that is gone ends or fails.  Public clients need not send their bodies,
\* hang up or fail, nor need local services or the connection fail.
Fairness ==
    /\ \A q \in Requests :
          /\ WF_vars(Ingress(q))
          /\ WF_vars(FromAgent(q)) /\ WF_vars(FromEdge(q))
          /\ WF_vars(outcome[q] = "gone" /\ (Pump(q) \/ PumpFail(q)))
          /\ WF_vars(uploaded[q] /\ LocalAnswers(q))
          /\ WF_vars(SendBody(q) \/ SendAborted(q) \/ SendEnd(q))
          /\ WF_vars(CloseDoomed(q)) /\ WF_vars(CountDown(q))
    /\ WF_vars(Teardown) /\ WF_vars(Closed)

FairSpec == Spec /\ Fairness

-----------------------------------------------------------------------------
(* Properties. *)

\* Streams in the table, or out of it and not counted down yet.
Held == {q \in Requests : entry[q]} \cup closing

\* open_streams counts the table: but for the streams inserted and not counted yet, and
\* those removed and not counted down yet, the wrapping counter agrees with the number
\* of entries, whoever closes them, when and how often.
StreamsCounted ==
    (openStreams + Cardinality({q \in Requests : handler[q] = "inserted"})) % Wrap
        = Cardinality(Held)

\* max_concurrent_streams is kept but for the race between its test and the count: all
\* streams beyond the limit are of requests that passed the test while another request
\* was between its own test and its count, however many were closed, timed out or torn
\* down with the session meanwhile.
LimitHeld == Limit > 0 => Cardinality(Held \ raced) <= Limit

\* What ImplementsPipe below says of whole responses: while the connection holds, a
\* response the public client takes for complete is complete.  No timeout, reset, late
\* frame or early answer passes a prefix off as the whole body.  (A client whose own
\* upload failed is not owed that.)
ResponseIntact ==
    \A q \in Requests :
        outcome[q] = "finished" /\ link = "up" /\ pump[q] # "failed" => received[q] = Body

\* While a response is under way over a connection that holds, and the local service
\* did not give up on the request body, somebody always has something to do for it: a
\* frame, an End or a Reset is coming, or credit is, or the agent has credit left.
\* (No timeout covers the body, so nothing would end a wait of everyone for everyone.)
AnswersMove ==
    Window > 0 => \A q \in Requests :
        handler[q] = "answering" /\ entry[q] /\ link = "up" /\ reading[q] =>
            \/ body[q] # <<>> \/ toEdge[q] # <<>>
            \/ \E i \in 1 .. Len(toAgent[q]) : toAgent[q][i] = "credit"
            \/ task[q] = "body" /\ (left[q] = 0 \/ credit[q] > 0)

\* While a response is awaited over a connection that holds, a request body that ends
\* for a local service that reads it is whole: the client's upload has ended and none of
\* it is on its way, whatever frames of the response were exchanged meanwhile.  (After
\* a Reset the body of a stream that is given up ends for the local service like a whole
\* one: drop_stream puts no error in its channel.)
UploadWhole ==
    \A q \in Requests :
        /\ handler[q] \in {"waiting", "answering"} /\ entry[q] /\ link = "up"
        /\ reading[q] /\ uploaded[q] /\ task[q] # "done"
        => pump[q] = "ended" /\ \A i \in 1 .. Len(toAgent[q]) : toAgent[q][i] # "data"

\* Every request admitted ends for its public client, unless the local service
\* gave up on the request body: then the agent's Data arm drops the stream, and
\* neither End nor Reset follows.
RequestAnswered ==
    \A q \in Requests :
        (handler[q] = "admitted") ~> (outcome[q] # "none" \/ ~reading[q])

\* No stream outlives its request: once the client has its answer or is gone, the
\* session's entry is released, at the latest with the session itself.  A client
\* that left before the head relies on the agent's next frame for that: a local service
\* that gave up on the request body prevents it, and so does a full queue, where the
\* client can leave before Open was sent.
StreamsReleased ==
    \A q \in Requests :
        (handler[q] = "over")
        ~> \/ handler[q] = "over" /\ (~entry[q] \/ link = "closed")
           \/ outcome[q] = "gone" /\ (~reading[q] \/ QueueFills)

\* A serve_stream task that waits for credit with frames left to send.
Parked(q) == task[q] = "body" /\ agentHas[q] /\ credit[q] = 0 /\ left[q] > 0

\* A serve_stream task in its response ends when its request did, unless the client
\* left before the head came or the session is lost: the guard's Reset, a late
\* Reset or the closed semaphore stops it wherever it is parked.  That rests on room in
\* the outbound queue.  When it can be full, the guard's Reset may be lost, and the task
\* may be left waiting for credit.  StreamGuard's comment has the agent find out by its
\* next frame, but the edge discards the frames of a stream it does not know.
AgentTasksEnd ==
    \A q \in Requests :
        (outcome[q] \notin {"none", "gone"} /\ task[q] = "body")
        ~> (task[q] = "done" \/ link # "up" \/ (QueueFills /\ Parked(q)))

\* When the session is lost, its serve_stream tasks in their responses end, too:
\* their next frame or End finds the connection gone.  Only one that waits for
\* credit stays, since run_session closes no semaphore of its streams.
TasksEndWithSession ==
    \A q \in Requests :
        (link = "closed" /\ task[q] = "body")
        ~> (task[q] = "done" \/ Parked(q))

\* What the public client has seen of a request.
Verdict(o) ==
    CASE o = "finished" -> "complete"
      [] o = "aborted" -> "cut"
      [] o \in {"hung up", "gone"} -> "left"
      [] OTHER -> "refused"

Seen(q) ==
    IF handler[q] = "over" THEN Verdict(outcome[q])
    ELSE IF handler[q] = "answering" THEN "answering" ELSE "asked"

\* ResponsePipe with the chunks the local service has handed over as produced.
Pipe == INSTANCE ResponsePipe WITH
    status <- [q \in Requests |-> Seen(q)],
    produced <- [q \in Requests |-> Body - left[q]],
    intact <- [q \in Requests |-> link = "up" /\ pump[q] # "failed"]

\* Between the local service and the public client, tasks, queues, credit and frames
\* make a pipe: whatever races, an error page comes instead of a response and never
\* after part of one, what is received was produced, it ends once, and a whole
\* response is what looks like one.
ImplementsPipe == Pipe!PipeSpec

-----------------------------------------------------------------------------
(* What the source says and the code does not do. *)

\* "Clean end of body" is Chunk::End, everything else "abortive" (session.rs): the
\* public client sees a clean end only after all of the response, unless its own
\* upload failed.
CleanEndIsComplete ==
    \A q \in Requests :
        outcome[q] = "finished" /\ pump[q] # "failed" => received[q] = Body
=============================================================================
