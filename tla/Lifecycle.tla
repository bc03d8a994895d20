----------------------------- MODULE Lifecycle ------------------------------
(***************************************************************************)
(* Agents that connect, serve, lose their session, back off and connect    *)
(* again (run and run_session of the agent), against an edge that starts,  *)
(* drains and stops (start_with_registry and RunningServer::shutdown).     *)
(*                                                                         *)
(* Every agent asks for one tunnel under a subdomain of its own, so its    *)
(* key can only be held by a session of that agent, present or past.       *)
(* Renewals are taken to succeed while the session's tasks run;            *)
(* ControlPlane has them, and contention for keys, in detail.              *)
(***************************************************************************)
EXTENDS Integers, FiniteSets

CONSTANTS
    Agents,
    Lives,       \* sessions of one agent known at a time: ids are used again
    MaxRetries,  \* AgentOptions::max_retries; 0 is "never give up"
    AttemptMax,  \* attempt is a u32: 2^32 - 1
    MaxFaults,   \* bound on lost connections, failed reads and killed edges
    MaxStarts    \* bound on restarts of the edge

ASSUME LivesAssumption == Lives \in Nat \ {0}
ASSUME BoundsAssumption ==
    MaxRetries \in Nat /\ AttemptMax \in Nat /\ MaxFaults \in Nat /\ MaxStarts \in Nat

\* attempt and max_retries are both u32, and a u32 can count past the last doubling.
ASSUME WidthAssumption == MaxRetries <= AttemptMax /\ AttemptMax >= 8

VARIABLES
    \* the edge
    edge,        \* "running", "draining" (shutdown was called) or "down"
    listening,   \* listeners that still accept connections
    tasks,       \* listener tasks that have not returned
    trusted,     \* agents whose token and protocol version it accepts
    phase,       \* what the edge does for a session: "none", "open", "teardown"
    route,       \* the session of a that holds a's routing key; 0 is free
    starts,
    \* the connections
    conn,        \* "up", "cut" (broken or left by the agent), "ended" by the edge
    faults,
    \* the agents
    step,        \* where run is, see AgentSteps
    life,        \* the session the agent is in
    told,        \* its tunnel as far as it knows, see TunnelViews
    result,      \* how run_session returned
    attempt,     \* the counter of run
    wait,        \* the delay it sleeps for
    redials,     \* history: reconnects since the start or the last clean end
    shutdown     \* was the agent asked to stop?

edgeVars  == <<edge, listening, tasks, trusted, starts>>
tableVars == <<phase, route>>
connVars  == <<conn, faults>>
agentVars == <<step, life, told, result, attempt, wait, redials, shutdown>>
vars == <<edgeVars, tableVars, connVars, agentVars>>

Listeners == {"public", "peer", "control"}
Ids == 1 .. Lives
\* "serving": in the select of the read loop; "held": inside handle_server_frame.
AgentSteps == {"loop", "dialing", "calling", "serving", "held", "returned", "sleeping",
               "stopped", "failed", "gave up"}
Final == {"stopped", "failed", "gave up"}
TunnelViews == {"none", "asked", "ready", "rejected"}

\* of reconnect_delay, in milliseconds
BASE_MS == 250
MAX_MS  == 30000

TypeOK ==
    /\ edge \in {"running", "draining", "down"}
    /\ listening \in SUBSET Listeners /\ tasks \in SUBSET Listeners
    /\ trusted \in SUBSET Agents
    /\ starts \in 0 .. MaxStarts
    /\ phase \in [Agents -> [Ids -> {"none", "open", "teardown"}]]
    /\ route \in [Agents -> 0 .. Lives]
    /\ conn \in [Agents -> [Ids -> {"up", "cut", "ended"}]]
    /\ faults \in 0 .. MaxFaults
    /\ step \in [Agents -> AgentSteps]
    /\ life \in [Agents -> 0 .. Lives]
    /\ told \in [Agents -> TunnelViews]
    /\ result \in [Agents -> {"none", "clean", "transient", "fatal"}]
    /\ attempt \in [Agents -> 0 .. AttemptMax]
    /\ wait \in [Agents -> 0 .. MAX_MS]
    /\ redials \in [Agents -> Nat]
    /\ shutdown \in [Agents -> BOOLEAN]

Init ==
    /\ edge = "running" /\ listening = Listeners /\ tasks = Listeners
    /\ trusted = Agents /\ starts = 0
    /\ phase = [a \in Agents |-> [i \in Ids |-> "none"]]
    /\ route = [a \in Agents |-> 0]
    /\ conn = [a \in Agents |-> [i \in Ids |-> "cut"]]
    /\ faults = 0
    /\ step = [a \in Agents |-> "loop"]
    /\ life = [a \in Agents |-> 0]
    /\ told = [a \in Agents |-> "none"]
    /\ result = [a \in Agents |-> "none"]
    /\ attempt = [a \in Agents |-> 0]
    /\ wait = [a \in Agents |-> 0]
    /\ redials = [a \in Agents |-> 0]
    /\ shutdown = [a \in Agents |-> FALSE]

Fault == faults < MaxFaults /\ faults' = faults + 1

Smaller(m, n) == IF m <= n THEN m ELSE n

-----------------------------------------------------------------------------
(* The agent: run *)

Goto(a, s) == step' = [step EXCEPT ![a] = s]

\* mutant: no ceiling
ReconnectDelay_Unlimited(n) == BASE_MS * 2 ^ Smaller(n, 8)

\* reconnect_delay; 1u64 << attempt.min(8) cannot overflow.
ReconnectDelay(n) == Smaller(BASE_MS * 2 ^ Smaller(n, 8), MAX_MS)

\* The head of the loop: stop, or dial.
LoopTop(a) ==
    /\ step[a] = "loop"
    /\ Goto(a, IF shutdown[a] THEN "stopped" ELSE "dialing")
    /\ UNCHANGED <<edgeVars, tableVars, connVars, life, told, result, attempt, wait,
                   redials, shutdown>>

\* run_session returns r; the agent's half of session i is gone with it.
Returned(a, r) ==
    /\ Goto(a, "returned")
    /\ result' = [result EXCEPT ![a] = r]
    /\ life' = [life EXCEPT ![a] = 0]
    /\ told' = [told EXCEPT ![a] = "none"]

\* mutant: a clean end does not reset the counter
Tried_NoReset(a) == attempt[a]

\* The counter after the session: only a clean end resets it.
Tried(a) == IF result[a] = "clean" THEN 0 ELSE attempt[a]

\* mutant: the retries are counted before they are compared
RetriesSpent_OneLess(n) == MaxRetries > 0 /\ n + 1 >= MaxRetries

RetriesSpent(n) == MaxRetries > 0 /\ n >= MaxRetries

\* run returns: a fatal error counts before a request to stop, and that before
\* spent retries.
RunEnds(a) ==
    /\ step[a] = "returned"
    /\ \/ result[a] = "fatal" /\ Goto(a, "failed")
       \/ result[a] # "fatal" /\ shutdown[a] /\ Goto(a, "stopped")
       \/ result[a] # "fatal" /\ ~shutdown[a] /\ RetriesSpent(Tried(a)) /\ Goto(a, "gave up")
    /\ attempt' = [attempt EXCEPT ![a] = Tried(a)]
    /\ result' = [result EXCEPT ![a] = "none"]
    /\ UNCHANGED <<edgeVars, tableVars, connVars, life, told, wait, redials,
                   shutdown>>

\* run goes to sleep before the next attempt.
BackOff(a) ==
    /\ step[a] = "returned"
    /\ result[a] # "fatal" /\ ~shutdown[a] /\ ~RetriesSpent(Tried(a))
    /\ Goto(a, "sleeping")
    /\ wait' = [wait EXCEPT ![a] = ReconnectDelay(Tried(a))]
    /\ attempt' = [attempt EXCEPT ![a] = Smaller(Tried(a) + 1, AttemptMax)]
    /\ redials' = [redials EXCEPT ![a] = IF result[a] = "clean" THEN 0 ELSE @]
    /\ result' = [result EXCEPT ![a] = "none"]
    /\ UNCHANGED <<edgeVars, tableVars, connVars, life, told, shutdown>>

\* The sleep ends, or the request to stop interrupts it.
WakeUp(a) ==
    /\ step[a] = "sleeping"
    /\ \/ Goto(a, "loop") /\ redials' = [redials EXCEPT ![a] = @ + 1]
       \/ shutdown[a] /\ Goto(a, "stopped") /\ UNCHANGED redials
    /\ wait' = [wait EXCEPT ![a] = 0]
    /\ UNCHANGED <<edgeVars, tableVars, connVars, life, told, result, attempt, shutdown>>

-----------------------------------------------------------------------------
(* The agent: run_session *)

\* connect; it is not raced with the request to stop.
Dial(a) ==
    /\ step[a] = "dialing"
    /\ \/ "control" \in listening
          /\ Goto(a, "calling")
          /\ UNCHANGED <<life, told, result>>
       \/ "control" \notin listening /\ Returned(a, "transient")
    /\ UNCHANGED <<edgeVars, tableVars, connVars, attempt, wait, redials, shutdown>>

\* An id that stands for a new session: neither edge nor table knows it.
Fresh(a, i) == phase[a][i] = "none" /\ route[a] # i

\* The session call with its Hello is accepted.  An edge that drains closes idle
\* connections, but still serves a call that is already on its way.
CallAccepted(a) ==
    /\ step[a] = "calling" /\ edge # "down" /\ a \in trusted
    /\ \E i \in Ids :
          /\ Fresh(a, i) /\ \A j \in 1 .. i - 1 : ~Fresh(a, j)
          /\ phase' = [phase EXCEPT ![a][i] = "open"]
          /\ conn' = [conn EXCEPT ![a][i] = "up"]
          /\ life' = [life EXCEPT ![a] = i]
    /\ Goto(a, "serving")
    /\ UNCHANGED <<edgeVars, route, faults, told, result, attempt, wait, redials, shutdown>>

\* The call fails: Unauthenticated and FailedPrecondition are fatal, everything
\* else is transient.
CallRefused(a) ==
    /\ step[a] = "calling"
    /\ \/ edge # "down" /\ a \notin trusted /\ Returned(a, "fatal")
       \/ edge # "running" /\ Returned(a, "transient")
    /\ UNCHANGED <<edgeVars, tableVars, connVars, attempt, wait, redials, shutdown>>

\* mutant: only the first session asks for the tunnel
Welcomed_FirstOnly(a) ==
    /\ step[a] = "serving" /\ told[a] = "none" /\ redials[a] = 0
    /\ told' = [told EXCEPT ![a] = "asked"]
    /\ UNCHANGED <<edgeVars, tableVars, connVars, step, life, result, attempt, wait,
                   redials, shutdown>>

\* Welcome: the agent asks for its tunnel.
Welcomed(a) ==
    /\ step[a] = "serving" /\ told[a] = "none" /\ conn[a][life[a]] = "up"
    /\ told' = [told EXCEPT ![a] = "asked"]
    /\ UNCHANGED <<edgeVars, tableVars, connVars, step, life, result, attempt, wait,
                   redials, shutdown>>

\* The read loop takes a frame whose handler waits: Data for a request whose body queue
\* is full, or an answer with the outbound queue full.  Only a tunnel brings such frames.
\* Frames that arrived before the connection broke are still taken.
HoldUp(a) ==
    /\ step[a] = "serving" /\ told[a] = "ready"
    /\ Goto(a, "held")
    /\ UNCHANGED <<edgeVars, tableVars, connVars, life, told, result, attempt, wait,
                   redials, shutdown>>

\* The handler returns: there is room in the queue, or its other end is gone.
GoOn(a) ==
    /\ step[a] = "held"
    /\ Goto(a, "serving")
    /\ UNCHANGED <<edgeVars, tableVars, connVars, life, told, result, attempt, wait,
                   redials, shutdown>>

\* mutant: the read loop does not watch for the request to stop
LeaveSession_Never(a) == FALSE /\ UNCHANGED vars

\* The request to stop ends the session from the agent's side.  The select sees it between
\* two frames, and not while a handler waits.
LeaveSession(a) ==
    /\ step[a] = "serving" /\ shutdown[a]
    /\ conn' = [conn EXCEPT ![a][life[a]] = "cut"]
    /\ Returned(a, "clean")
    /\ UNCHANGED <<edgeVars, tableVars, faults, attempt, wait, redials, shutdown>>

\* The inbound stream ends: cleanly when the edge ended it, else with an error.
StreamOver(a) ==
    /\ step[a] = "serving" /\ conn[a][life[a]] # "up"
    /\ Returned(a, IF conn[a][life[a]] = "ended" THEN "clean" ELSE "transient")
    /\ conn' = [conn EXCEPT ![a][life[a]] = "cut"]
    /\ UNCHANGED <<edgeVars, tableVars, faults, attempt, wait, redials, shutdown>>

\* External: the agent is asked to stop.
CtrlC(a) ==
    /\ ~shutdown[a] /\ step[a] \notin Final
    /\ shutdown' = [shutdown EXCEPT ![a] = TRUE]
    /\ UNCHANGED <<edgeVars, tableVars, connVars, step, life, told, result, attempt,
                   wait, redials>>

\* The command line's serve returns right after that: the process ends, and run
\* and its connection with it, wherever run is.
Exit(a) ==
    /\ shutdown[a] /\ step[a] \notin Final
    /\ Goto(a, "stopped")
    /\ conn' = [conn EXCEPT ![a] = [i \in Ids |-> IF i = life[a] THEN "cut" ELSE @[i]]]
    /\ life' = [life EXCEPT ![a] = 0]
    /\ told' = [told EXCEPT ![a] = "none"]
    /\ UNCHANGED <<edgeVars, tableVars, faults, result, attempt, wait, redials, shutdown>>

-----------------------------------------------------------------------------
(* The edge's side of a session *)

\* OpenTunnel is claimed for the session, and TunnelStatus tells the agent.
RegisterTunnel(a) ==
    LET i == life[a]
        free == route[a] \in {0, i}
    IN
    /\ step[a] = "serving" /\ told[a] = "asked"
    /\ phase[a][i] = "open" /\ conn[a][i] = "up"
    /\ route' = [route EXCEPT ![a] = IF free THEN i ELSE @]
    /\ told' = [told EXCEPT ![a] = IF free THEN "ready" ELSE "rejected"]
    /\ UNCHANGED <<edgeVars, phase, connVars, step, life, result, attempt, wait, redials,
                   shutdown>>

\* The read loop sees the end of the agent's stream; or, a fault, an error of its
\* own, with the agent still there.
ReadEnds(a, i) ==
    /\ phase[a][i] = "open"
    /\ \/ conn[a][i] # "up" /\ UNCHANGED faults
       \/ conn[a][i] = "up" /\ Fault
    /\ phase' = [phase EXCEPT ![a][i] = "teardown"]
    /\ UNCHANGED <<edgeVars, route, conn, agentVars>>

\* mutant: the release is not owner-checked
Teardown_NoOwnerCheck(a, i) ==
    /\ phase[a][i] = "teardown"
    /\ phase' = [phase EXCEPT ![a][i] = "none"]
    /\ route' = [route EXCEPT ![a] = 0]
    /\ conn' = [conn EXCEPT ![a][i] = IF @ = "up" THEN "ended" ELSE @]
    /\ UNCHANGED <<edgeVars, faults, agentVars>>

\* teardown, owner-checked; then the session's last reference goes and the response
\* stream ends.
Teardown(a, i) ==
    /\ phase[a][i] = "teardown"
    /\ phase' = [phase EXCEPT ![a][i] = "none"]
    /\ route' = [route EXCEPT ![a] = IF @ = i THEN 0 ELSE @]
    /\ conn' = [conn EXCEPT ![a][i] = IF @ = "up" THEN "ended" ELSE @]
    /\ UNCHANGED <<edgeVars, faults, agentVars>>

\* External: the connection of a session breaks.
ConnectionLost(a, i) ==
    /\ conn[a][i] = "up" /\ Fault
    /\ conn' = [conn EXCEPT ![a][i] = "cut"]
    /\ UNCHANGED <<edgeVars, tableVars, agentVars>>

\* External: the table drops a record that nobody renews.
Expire(a) ==
    /\ route[a] # 0 /\ phase[a][route[a]] = "none"
    /\ route' = [route EXCEPT ![a] = 0]
    /\ UNCHANGED <<edgeVars, phase, connVars, agentVars>>

-----------------------------------------------------------------------------
(* The edge: start and shutdown *)

\* start_with_registry: build_auth reads the tokens of this start, and all three
\* listeners are bound before any task is spawned.
EdgeStart ==
    /\ edge = "down" /\ starts < MaxStarts
    /\ edge' = "running" /\ starts' = starts + 1
    /\ trusted' \in SUBSET Agents
    /\ listening' = Listeners /\ tasks' = Listeners
    /\ UNCHANGED <<tableVars, connVars, agentVars>>

\* RunningServer::shutdown: the flag is sent.
EdgeShutdown ==
    /\ edge = "running"
    /\ edge' = "draining"
    /\ UNCHANGED <<listening, tasks, trusted, starts, tableVars, connVars, agentVars>>

\* mutant: the control plane does not see the flag
ListenerStops_HttpOnly(l) ==
    /\ edge = "draining" /\ l \in listening \ {"control"}
    /\ listening' = listening \ {l}
    /\ tasks' = tasks \ {l}
    /\ UNCHANGED <<edge, trusted, starts, tableVars, connVars, agentVars>>

\* A listener sees the flag and stops accepting.  The tasks of the two HTTP
\* listeners return with that, whatever their connections do.
ListenerStops(l) ==
    /\ edge = "draining" /\ l \in listening
    /\ listening' = listening \ {l}
    /\ tasks' = IF l = "control" THEN tasks ELSE tasks \ {l}
    /\ UNCHANGED <<edge, trusted, starts, tableVars, connVars, agentVars>>

\* External: tonic's graceful shutdown waits for the streams of open connections.
NoOpenSession == \A a \in Agents, i \in Ids : conn[a][i] # "up"

ControlReturns ==
    /\ "control" \in tasks \ listening /\ NoOpenSession
    /\ tasks' = tasks \ {"control"}
    /\ UNCHANGED <<edge, listening, trusted, starts, tableVars, connVars, agentVars>>

\* The process is gone: its sessions' tasks end where they are, without teardown.
Stop ==
    /\ edge' = "down" /\ listening' = {} /\ tasks' = {}
    /\ phase' = [a \in Agents |-> [i \in Ids |-> "none"]]
    /\ conn' = [a \in Agents |-> [i \in Ids |->
                   IF conn[a][i] = "up" THEN "cut" ELSE conn[a][i]]]
    /\ UNCHANGED <<trusted, starts, route, agentVars>>

\* shutdown has awaited every task, and main returns.
ShutdownReturns == edge = "draining" /\ tasks = {} /\ Stop /\ UNCHANGED faults

\* External: the edge is killed.
Killed == edge # "down" /\ Stop /\ Fault

-----------------------------------------------------------------------------
AgentRuns(a) ==
    \/ LoopTop(a) \/ RunEnds(a) \/ BackOff(a) \/ WakeUp(a)
    \/ Dial(a) \/ CallAccepted(a) \/ CallRefused(a)
    \/ Welcomed(a) \/ LeaveSession(a) \/ StreamOver(a)

EdgeDrains == (\E l \in Listeners : ListenerStops(l)) \/ ControlReturns \/ ShutdownReturns

Next ==
    \/ \E a \in Agents :
          \/ AgentRuns(a) \/ HoldUp(a) \/ GoOn(a) \/ CtrlC(a) \/ Exit(a)
          \/ RegisterTunnel(a) \/ Expire(a)
    \/ \E a \in Agents, i \in Ids : ReadEnds(a, i) \/ Teardown(a, i) \/ ConnectionLost(a, i)
    \/ EdgeStart \/ EdgeShutdown \/ EdgeDrains \/ Killed

Spec == Init /\ [][Next]_vars

\* Both programs keep running, a broken connection is noticed by both ends, and
\* leases nobody renews lapse.  tokio's select! takes its ready branches in random
\* order, and a stream that is over has finitely many frames left: an agent that comes
\* back to the select again and again leaves the session.  Nobody has to stop, start or
\* break anything, and a handler need not return.
Fairness ==
    /\ \A a \in Agents :
          /\ WF_vars(AgentRuns(a)) /\ WF_vars(RegisterTunnel(a)) /\ WF_vars(Expire(a))
          /\ SF_vars(LeaveSession(a) \/ StreamOver(a))
    /\ \A a \in Agents, i \in Ids :
          WF_vars(conn[a][i] # "up" /\ ReadEnds(a, i)) /\ WF_vars(Teardown(a, i))
    /\ WF_vars(EdgeDrains)

FairSpec == Spec /\ Fairness

-----------------------------------------------------------------------------
(* Properties. *)

\* The n-th reconnect since the last clean end waits for 250 ms times 2^n, and for
\* 30 s once that would be more (n >= 7), whatever the shift and the counter are
\* capped at (reconnect_delay).
BackoffSchedule ==
    \A a \in Agents : step[a] = "sleeping" =>
        wait[a] = IF redials[a] < 7 THEN BASE_MS * 2 ^ redials[a] ELSE MAX_MS

\* An agent gives up after max_retries reconnects in a row, neither one earlier nor
\* one later, and never when max_retries is 0 (run).
RetriesHonoured ==
    \A a \in Agents :
        /\ MaxRetries > 0 => redials[a] <= MaxRetries
        /\ step[a] = "gave up" => MaxRetries > 0 /\ redials[a] = MaxRetries

\* run returns after the request to stop, wherever it is: dialing, in the call, between
\* or in the middle of frames, or asleep.  Only a frame whose handler waits for good, for
\* a local service that never reads or an edge that never does, keeps it from that.
AgentStops ==
    \A a \in Agents : shutdown[a] ~> (step[a] \in Final \/ [](step[a] = "held"))

\* Once every agent was asked to stop, shutdown returns, although agents may still
\* be calling while the edge drains (RunningServer::shutdown): the only session it
\* waits for without end is one whose agent is held up by a frame for good.
DrainCompletes ==
    (edge = "draining" /\ \A a \in Agents : shutdown[a])
    ~> (edge = "down" \/ \E a \in Agents : [](step[a] = "held"))

\* A trusted agent in its loop gets to a session and to an answer about its tunnel,
\* unless it ends or the edge goes away.
AgentReconnects ==
    \A a \in Agents :
        (step[a] = "loop" /\ a \in trusted)
        ~> (told[a] \in {"ready", "rejected"} \/ step[a] \in Final \/ edge # "running")

\* A tunnel the agent takes for online is: its session holds the route for as long
\* as the connection is up, whichever former sessions of the agent are torn down,
\* expire or die with the edge meanwhile.
ReadyIsRouted ==
    \A a \in Agents : told[a] = "ready" /\ conn[a][life[a]] = "up" /\ phase[a][life[a]] = "open" =>
        route[a] = life[a]

-----------------------------------------------------------------------------
(* What the source says and the code does not do. *)

\* "a reconnecting agent can never lose its own key to itself" (registry.rs,
\* CLAIM_SCRIPT): an agent that comes back and is refused its key, because a former
\* session of its own still holds it, gets its tunnel in the end.
TunnelComesBack ==
    \A a \in Agents :
        (step[a] = "serving" /\ told[a] = "rejected")
        ~> (told[a] = "ready" \/ step[a] # "serving" \/ edge # "running")
=============================================================================
