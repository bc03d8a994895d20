-------------------------- MODULE LifecycleProofs ---------------------------
(***************************************************************************)
(* What Lifecycle's runs check on one agent with nine retries, for any     *)
(* number of agents and sessions, any max_retries and any number of        *)
(* faults and restarts: the types, the schedule of the delays, the count   *)
(* of the retries and the route of a tunnel that is told to be online.     *)
(***************************************************************************)
EXTENDS Lifecycle, TLAPS

(* The inductive invariant. *)

\* The steps between two sleeps.
Active == {"loop", "dialing", "calling", "serving", "held", "returned"}

\* What the counter of run says about the reconnects there have been: it is ahead
\* by one while the agent sleeps, and it saturates.
Counter(a) ==
    /\ step[a] \in Active => attempt[a] = Smaller(redials[a], AttemptMax)
    /\ step[a] = "sleeping" =>
          /\ attempt[a] = Smaller(redials[a] + 1, AttemptMax)
          /\ wait[a] = ReconnectDelay(Smaller(redials[a], AttemptMax))
          /\ MaxRetries > 0 => redials[a] < MaxRetries
    /\ MaxRetries > 0 => redials[a] <= MaxRetries
    /\ step[a] = "gave up" => MaxRetries > 0 /\ redials[a] = MaxRetries

Counted == \A a \in Agents : Counter(a)

\* An agent knows about a tunnel only inside a session, and its tunnel's route is
\* its session's.
Routed(a) ==
    /\ told[a] # "none" => step[a] \in {"serving", "held"}
    /\ step[a] \in {"serving", "held"} => life[a] \in Ids
    /\ told[a] = "ready" /\ conn[a][life[a]] = "up" /\ phase[a][life[a]] = "open" =>
          route[a] = life[a]

AllRouted == \A a \in Agents : Routed(a)

IndInv == TypeOK /\ Counted /\ AllRouted

-----------------------------------------------------------------------------
(* The delay *)

\* The powers of two that 1u64 << attempt.min(8) can be.
LEMMA Powers ==
    ASSUME NEW n \in 0 .. 8
    PROVE  /\ 2 ^ n \in 1 .. 256
           /\ n < 7 => 2 ^ n <= 64
           /\ n >= 7 => 2 ^ n >= 128
<1>0. CASE n = 0  BY <1>0
<1>1. CASE n = 1  BY <1>1
<1>2. CASE n = 2  BY <1>2
<1>3. CASE n = 3  BY <1>3
<1>4. CASE n = 4  BY <1>4
<1>5. CASE n = 5  BY <1>5
<1>6. CASE n = 6  BY <1>6
<1>7. CASE n = 7  BY <1>7
<1>8. CASE n = 8  BY <1>8
<1> QED
  BY <1>0, <1>1, <1>2, <1>3, <1>4, <1>5, <1>6, <1>7, <1>8

\* reconnect_delay in closed form: the shift is capped at 8, beyond the ceiling.
LEMMA DelayClosed ==
    ASSUME NEW n \in Nat
    PROVE  /\ ReconnectDelay(n) = IF n < 7 THEN BASE_MS * 2 ^ n ELSE MAX_MS
           /\ ReconnectDelay(n) \in 0 .. MAX_MS
<1> DEFINE m == Smaller(n, 8)
           p == 2 ^ m
<1>1. m \in 0 .. 8 /\ (n < 7 => m = n) /\ (n >= 7 => m >= 7)
  BY DEF Smaller
<1>2. p \in 1 .. 256 /\ (m < 7 => p <= 64) /\ (m >= 7 => p >= 128)
  <2> HIDE DEF m
  <2> QED  BY <1>1, Powers
<1>3. ReconnectDelay(n) = Smaller(BASE_MS * p, MAX_MS)
  BY DEF ReconnectDelay
<1>4. n < 7 => p = 2 ^ n
  BY <1>1
<1>5. n \in Int /\ m \in Int
  BY <1>1
<1> HIDE DEF p, m
<1>6. /\ n < 7 => ReconnectDelay(n) = BASE_MS * p
      /\ n >= 7 => ReconnectDelay(n) = MAX_MS
      /\ ReconnectDelay(n) >= 0 /\ ReconnectDelay(n) <= MAX_MS /\ ReconnectDelay(n) \in Int
  BY <1>1, <1>2, <1>3, <1>5 DEF Smaller, BASE_MS, MAX_MS
<1>7. MAX_MS \in Int
  BY DEF MAX_MS
<1>8. ReconnectDelay(n) \in 0 .. MAX_MS
  BY <1>6, <1>7
<1> QED
  BY <1>4, <1>5, <1>6, <1>8

-----------------------------------------------------------------------------
(* Types, by the owner of the state: the edge, the table, the connections and  *)
(* the agents.                                                                *)

EdgeTypes ==
    /\ edge \in {"running", "draining", "down"}
    /\ listening \in SUBSET Listeners /\ tasks \in SUBSET Listeners
    /\ trusted \in SUBSET Agents
    /\ starts \in 0 .. MaxStarts

TableTypes ==
    /\ phase \in [Agents -> [Ids -> {"none", "open", "teardown"}]]
    /\ route \in [Agents -> 0 .. Lives]

ConnTypes ==
    /\ conn \in [Agents -> [Ids -> {"up", "cut", "ended"}]]
    /\ faults \in 0 .. MaxFaults

SessionTypes ==
    /\ step \in [Agents -> AgentSteps]
    /\ life \in [Agents -> 0 .. Lives]
    /\ told \in [Agents -> TunnelViews]
    /\ result \in [Agents -> {"none", "clean", "transient", "fatal"}]

RetryTypes ==
    /\ attempt \in [Agents -> 0 .. AttemptMax]
    /\ wait \in [Agents -> 0 .. MAX_MS]
    /\ redials \in [Agents -> Nat]
    /\ shutdown \in [Agents -> BOOLEAN]

Typed == EdgeTypes /\ TableTypes /\ ConnTypes /\ SessionTypes /\ RetryTypes

\* TypeOK in parts.
LEMMA TypesByOwner == TypeOK <=> Typed
  BY DEF TypeOK, Typed, EdgeTypes, TableTypes, ConnTypes, SessionTypes, RetryTypes

\* The edge does nothing.
LEMMA StillE == EdgeTypes /\ UNCHANGED edgeVars => EdgeTypes'
  BY DEF EdgeTypes, edgeVars

\* The table does not change.
LEMMA StillT == TableTypes /\ UNCHANGED tableVars => TableTypes'
  BY DEF TableTypes, tableVars

\* The connections do not change.
LEMMA StillC == ConnTypes /\ UNCHANGED connVars => ConnTypes'
  BY DEF ConnTypes, connVars

\* No agent gets anywhere.
LEMMA StillA == SessionTypes /\ UNCHANGED <<step, life, told, result>> => SessionTypes'
  BY DEF SessionTypes

\* No agent counts.
LEMMA StillR == RetryTypes /\ UNCHANGED <<attempt, wait, redials, shutdown>> => RetryTypes'
  BY DEF RetryTypes

\* A new value at one place.
LEMMA Update ==
    ASSUME NEW S, NEW T, NEW f \in [S -> T], NEW s \in S, NEW v \in T
    PROVE  [f EXCEPT ![s] = v] \in [S -> T]
  OBVIOUS

\* run_session returns.
LEMMA ReturnedTypes ==
    ASSUME SessionTypes, NEW a \in Agents, NEW r \in {"clean", "transient", "fatal"},
           Returned(a, r)
    PROVE  SessionTypes'
<1>1. "returned" \in AgentSteps /\ "none" \in TunnelViews /\ 0 \in 0 .. Lives
  BY LivesAssumption DEF AgentSteps, TunnelViews
<1>2. step' \in [Agents -> AgentSteps]
  BY <1>1 DEF SessionTypes, Returned, Goto
<1>3. life' \in [Agents -> 0 .. Lives]
  BY <1>1 DEF SessionTypes, Returned
<1>4. told' \in [Agents -> TunnelViews]
  BY <1>1 DEF SessionTypes, Returned
<1>5. result' \in [Agents -> {"none", "clean", "transient", "fatal"}]
  BY DEF SessionTypes, Returned
<1> QED
  BY <1>2, <1>3, <1>4, <1>5 DEF SessionTypes

\* The types hold at the start.
LEMMA TypesInit == Init => Typed
<1> MAX_MS \in Nat
  BY DEF MAX_MS
<1> QED
  BY LivesAssumption, BoundsAssumption
     DEF Init, Typed, EdgeTypes, TableTypes, ConnTypes, SessionTypes, RetryTypes, Ids, AgentSteps,
         Listeners, TunnelViews

\* Every step keeps the types.
LEMMA TypesNext == Typed /\ [Next]_vars => Typed'
<1> SUFFICES ASSUME Typed, [Next]_vars PROVE Typed'
  OBVIOUS
<1> USE LivesAssumption, BoundsAssumption DEF Typed
<1> MAX_MS \in Nat
  BY DEF MAX_MS
<1>d. \A a \in Agents : ReconnectDelay(Tried(a)) \in 0 .. MAX_MS
  <2> SUFFICES ASSUME NEW a \in Agents PROVE Tried(a) \in Nat
    BY DelayClosed
  <2> QED
    BY DEF RetryTypes, Tried
<1>0. CASE UNCHANGED vars
  BY <1>0, StillE, StillT, StillC, StillA, StillR DEF vars, agentVars
<1>1. ASSUME NEW a \in Agents, AgentRuns(a) PROVE Typed'
  <2>1. CASE LoopTop(a)
    <3>e. EdgeTypes'
      BY <2>1, StillE DEF LoopTop, Goto
    <3>t. TableTypes'
      BY <2>1, StillT DEF LoopTop, Goto
    <3>c. ConnTypes'
      BY <2>1, StillC DEF LoopTop, Goto
    <3>a. SessionTypes'
      BY <2>1 DEF LoopTop, Goto, SessionTypes, AgentSteps, TunnelViews, Ids
    <3>r. RetryTypes'
      BY <2>1, StillR DEF LoopTop, Goto
    <3> QED
      BY <3>e, <3>t, <3>c, <3>a, <3>r
  <2>2. CASE RunEnds(a)
    <3>e. EdgeTypes'
      BY <2>2, StillE DEF RunEnds, Goto
    <3>t. TableTypes'
      BY <2>2, StillT DEF RunEnds, Goto
    <3>c. ConnTypes'
      BY <2>2, StillC DEF RunEnds, Goto
    <3>a. SessionTypes'
      BY <2>2 DEF RunEnds, Goto, SessionTypes, AgentSteps, TunnelViews, Ids
    <3>r. RetryTypes'
      <4>1. Tried(a) \in 0 .. AttemptMax
        BY DEF Tried, RetryTypes
      <4> QED
        BY <2>2, <4>1, Update DEF RunEnds, RetryTypes
    <3> QED
      BY <3>e, <3>t, <3>c, <3>a, <3>r
  <2>3. CASE BackOff(a)
    <3>e. EdgeTypes'
      BY <2>3, StillE DEF BackOff, Goto
    <3>t. TableTypes'
      BY <2>3, StillT DEF BackOff, Goto
    <3>c. ConnTypes'
      BY <2>3, StillC DEF BackOff, Goto
    <3>a. SessionTypes'
      BY <2>3 DEF BackOff, Goto, SessionTypes, AgentSteps, TunnelViews, Ids
    <3>r. RetryTypes'
      <4>1. Tried(a) \in 0 .. AttemptMax
        BY DEF Tried, RetryTypes
      <4>2. Smaller(Tried(a) + 1, AttemptMax) \in 0 .. AttemptMax
        BY <4>1 DEF Smaller
      <4>3. attempt' \in [Agents -> 0 .. AttemptMax]
        BY <2>3, <4>2, Update DEF BackOff, RetryTypes
      <4>4. wait' \in [Agents -> 0 .. MAX_MS]
        BY <2>3, <1>d, Update DEF BackOff, RetryTypes
      <4>5. redials' \in [Agents -> Nat]
        BY <2>3 DEF BackOff, RetryTypes
      <4> QED
        BY <2>3, <4>3, <4>4, <4>5 DEF BackOff, RetryTypes
    <3> QED
      BY <3>e, <3>t, <3>c, <3>a, <3>r
  <2>4. CASE WakeUp(a)
    <3>e. EdgeTypes'
      BY <2>4, StillE DEF WakeUp, Goto
    <3>t. TableTypes'
      BY <2>4, StillT DEF WakeUp, Goto
    <3>c. ConnTypes'
      BY <2>4, StillC DEF WakeUp, Goto
    <3>a. SessionTypes'
      BY <2>4 DEF WakeUp, Goto, SessionTypes, AgentSteps, TunnelViews, Ids
    <3>r. RetryTypes'
      BY <2>4 DEF WakeUp, Goto, RetryTypes
    <3> QED
      BY <3>e, <3>t, <3>c, <3>a, <3>r
  <2>5. CASE Dial(a)
    <3>e. EdgeTypes'
      BY <2>5, StillE DEF Dial, Goto, Returned
    <3>t. TableTypes'
      BY <2>5, StillT DEF Dial, Goto, Returned
    <3>c. ConnTypes'
      BY <2>5, StillC DEF Dial, Goto, Returned
    <3>a. SessionTypes'
      <4>1. CASE Goto(a, "calling") /\ UNCHANGED <<life, told, result>>
        BY <4>1 DEF Goto, SessionTypes, AgentSteps
      <4>2. CASE Returned(a, "transient")
        BY <4>2, ReturnedTypes
      <4> QED
        BY <2>5, <4>1, <4>2 DEF Dial
    <3>r. RetryTypes'
      BY <2>5, StillR DEF Dial, Goto, Returned
    <3> QED
      BY <3>e, <3>t, <3>c, <3>a, <3>r
  <2>6. CASE CallAccepted(a)
    <3>e. EdgeTypes'
      BY <2>6, StillE DEF CallAccepted, Goto
    <3>t. TableTypes'
      BY <2>6 DEF CallAccepted, Goto, TableTypes, Ids, tableVars
    <3>c. ConnTypes'
      BY <2>6 DEF CallAccepted, Goto, ConnTypes, Ids, connVars
    <3>a. SessionTypes'
      <4>1. step' \in [Agents -> AgentSteps]
        BY <2>6 DEF CallAccepted, Goto, SessionTypes, AgentSteps
      <4>2. life' \in [Agents -> 0 .. Lives]
        BY <2>6 DEF CallAccepted, Goto, SessionTypes, Ids
      <4>3. told' \in [Agents -> TunnelViews]
        BY <2>6 DEF CallAccepted, Goto, SessionTypes, TunnelViews
      <4>4. result' \in [Agents -> {"none", "clean", "transient", "fatal"}]
        BY <2>6 DEF CallAccepted, Goto, SessionTypes
      <4> QED
        BY <4>1, <4>2, <4>3, <4>4 DEF SessionTypes
    <3>r. RetryTypes'
      BY <2>6, StillR DEF CallAccepted, Goto
    <3> QED
      BY <3>e, <3>t, <3>c, <3>a, <3>r
  <2>7. CASE CallRefused(a)
    <3>e. EdgeTypes'
      BY <2>7, StillE DEF CallRefused, Goto, Returned
    <3>t. TableTypes'
      BY <2>7, StillT DEF CallRefused, Goto, Returned
    <3>c. ConnTypes'
      BY <2>7, StillC DEF CallRefused, Goto, Returned
    <3>a. SessionTypes'
      BY <2>7, ReturnedTypes DEF CallRefused
    <3>r. RetryTypes'
      BY <2>7, StillR DEF CallRefused, Goto, Returned
    <3> QED
      BY <3>e, <3>t, <3>c, <3>a, <3>r
  <2>8. CASE Welcomed(a)
    <3>e. EdgeTypes'
      BY <2>8, StillE DEF Welcomed
    <3>t. TableTypes'
      BY <2>8, StillT DEF Welcomed
    <3>c. ConnTypes'
      BY <2>8, StillC DEF Welcomed
    <3>a. SessionTypes'
      BY <2>8 DEF Welcomed, SessionTypes, AgentSteps, TunnelViews, Ids
    <3>r. RetryTypes'
      BY <2>8, StillR DEF Welcomed
    <3> QED
      BY <3>e, <3>t, <3>c, <3>a, <3>r
  <2>9. CASE LeaveSession(a)
    <3>e. EdgeTypes'
      BY <2>9, StillE DEF LeaveSession, Goto, Returned
    <3>t. TableTypes'
      BY <2>9, StillT DEF LeaveSession, Goto, Returned
    <3>c. ConnTypes'
      BY <2>9 DEF LeaveSession, Goto, Returned, ConnTypes, Ids, connVars
    <3>a. SessionTypes'
      BY <2>9, ReturnedTypes DEF LeaveSession
    <3>r. RetryTypes'
      BY <2>9, StillR DEF LeaveSession, Goto, Returned
    <3> QED
      BY <3>e, <3>t, <3>c, <3>a, <3>r
  <2>10. CASE StreamOver(a)
    <3>e. EdgeTypes'
      BY <2>10, StillE DEF StreamOver, Goto, Returned
    <3>t. TableTypes'
      BY <2>10, StillT DEF StreamOver, Goto, Returned
    <3>c. ConnTypes'
      BY <2>10 DEF StreamOver, Goto, Returned, ConnTypes, Ids, connVars
    <3>a. SessionTypes'
      <4> PICK r \in {"clean", "transient"} : Returned(a, r)
        BY <2>10 DEF StreamOver
      <4> QED
        BY ReturnedTypes
    <3>r. RetryTypes'
      BY <2>10, StillR DEF StreamOver, Goto, Returned
    <3> QED
      BY <3>e, <3>t, <3>c, <3>a, <3>r
  <2> QED
    BY <1>1, <2>1, <2>2, <2>3, <2>4, <2>5, <2>6, <2>7, <2>8, <2>9, <2>10 DEF AgentRuns
<1>2. ASSUME NEW a \in Agents, CtrlC(a) PROVE Typed'
  <2>e. EdgeTypes'
    BY <1>2, StillE DEF CtrlC
  <2>t. TableTypes'
    BY <1>2, StillT DEF CtrlC
  <2>c. ConnTypes'
    BY <1>2, StillC DEF CtrlC
  <2>a. SessionTypes'
    BY <1>2, StillA DEF CtrlC
  <2>r. RetryTypes'
    BY <1>2 DEF CtrlC, RetryTypes
  <2> QED
    BY <2>e, <2>t, <2>c, <2>a, <2>r
<1>3. ASSUME NEW a \in Agents, Exit(a) PROVE Typed'
  <2>e. EdgeTypes'
    BY <1>3, StillE DEF Exit, Goto
  <2>t. TableTypes'
    BY <1>3, StillT DEF Exit, Goto
  <2>c. ConnTypes'
    BY <1>3 DEF Exit, Goto, ConnTypes, Ids, connVars
  <2>a. SessionTypes'
    <3>1. step' \in [Agents -> AgentSteps]
      BY <1>3 DEF Exit, Goto, SessionTypes, AgentSteps
    <3>2. life' \in [Agents -> 0 .. Lives]
      BY <1>3 DEF Exit, Goto, SessionTypes, Ids
    <3>3. told' \in [Agents -> TunnelViews]
      BY <1>3 DEF Exit, Goto, SessionTypes, TunnelViews
    <3>4. result' \in [Agents -> {"none", "clean", "transient", "fatal"}]
      BY <1>3 DEF Exit, Goto, SessionTypes
    <3> QED
      BY <3>1, <3>2, <3>3, <3>4 DEF SessionTypes
  <2>r. RetryTypes'
    BY <1>3, StillR DEF Exit, Goto
  <2> QED
    BY <2>e, <2>t, <2>c, <2>a, <2>r
<1>4. ASSUME NEW a \in Agents, RegisterTunnel(a) PROVE Typed'
  <2>e. EdgeTypes'
    BY <1>4, StillE DEF RegisterTunnel
  <2>t. TableTypes'
    <3> PICK v \in 0 .. Lives : route' = [route EXCEPT ![a] = v]
      BY <1>4 DEF RegisterTunnel, TableTypes, SessionTypes
    <3> QED
      BY <1>4 DEF RegisterTunnel, TableTypes
  <2>c. ConnTypes'
    BY <1>4, StillC DEF RegisterTunnel
  <2>a. SessionTypes'
    BY <1>4 DEF RegisterTunnel, SessionTypes, AgentSteps, TunnelViews, Ids
  <2>r. RetryTypes'
    BY <1>4, StillR DEF RegisterTunnel
  <2> QED
    BY <2>e, <2>t, <2>c, <2>a, <2>r
<1>5. ASSUME NEW a \in Agents, Expire(a) PROVE Typed'
  <2>e. EdgeTypes'
    BY <1>5, StillE DEF Expire
  <2>t. TableTypes'
    BY <1>5 DEF Expire, TableTypes, Ids, tableVars
  <2>c. ConnTypes'
    BY <1>5, StillC DEF Expire
  <2>a. SessionTypes'
    BY <1>5, StillA DEF Expire, agentVars
  <2>r. RetryTypes'
    BY <1>5, StillR DEF Expire, agentVars
  <2> QED
    BY <2>e, <2>t, <2>c, <2>a, <2>r
<1>6. ASSUME NEW a \in Agents, NEW i \in Ids, ReadEnds(a, i) PROVE Typed'
  <2>e. EdgeTypes'
    BY <1>6, StillE DEF ReadEnds, Fault
  <2>t. TableTypes'
    BY <1>6 DEF ReadEnds, Fault, TableTypes, Ids, tableVars
  <2>c. ConnTypes'
    BY <1>6 DEF ReadEnds, Fault, ConnTypes, Ids, connVars
  <2>a. SessionTypes'
    BY <1>6, StillA DEF ReadEnds, Fault, agentVars
  <2>r. RetryTypes'
    BY <1>6, StillR DEF ReadEnds, Fault, agentVars
  <2> QED
    BY <2>e, <2>t, <2>c, <2>a, <2>r
<1>7. ASSUME NEW a \in Agents, NEW i \in Ids, Teardown(a, i) PROVE Typed'
  <2>e. EdgeTypes'
    BY <1>7, StillE DEF Teardown
  <2>t. TableTypes'
    BY <1>7 DEF Teardown, TableTypes, Ids, tableVars
  <2>c. ConnTypes'
    BY <1>7 DEF Teardown, ConnTypes, Ids, connVars
  <2>a. SessionTypes'
    BY <1>7, StillA DEF Teardown, agentVars
  <2>r. RetryTypes'
    BY <1>7, StillR DEF Teardown, agentVars
  <2> QED
    BY <2>e, <2>t, <2>c, <2>a, <2>r
<1>8. ASSUME NEW a \in Agents, NEW i \in Ids, ConnectionLost(a, i) PROVE Typed'
  <2>e. EdgeTypes'
    BY <1>8, StillE DEF ConnectionLost, Fault
  <2>t. TableTypes'
    BY <1>8, StillT DEF ConnectionLost, Fault
  <2>c. ConnTypes'
    BY <1>8 DEF ConnectionLost, Fault, ConnTypes, Ids, connVars
  <2>a. SessionTypes'
    BY <1>8, StillA DEF ConnectionLost, Fault, agentVars
  <2>r. RetryTypes'
    BY <1>8, StillR DEF ConnectionLost, Fault, agentVars
  <2> QED
    BY <2>e, <2>t, <2>c, <2>a, <2>r
<1>9. CASE EdgeStart
  <2>e. EdgeTypes'
    BY <1>9 DEF EdgeStart, EdgeTypes, Listeners, edgeVars
  <2>t. TableTypes'
    BY <1>9, StillT DEF EdgeStart
  <2>c. ConnTypes'
    BY <1>9, StillC DEF EdgeStart
  <2>a. SessionTypes'
    BY <1>9, StillA DEF EdgeStart, agentVars
  <2>r. RetryTypes'
    BY <1>9, StillR DEF EdgeStart, agentVars
  <2> QED
    BY <2>e, <2>t, <2>c, <2>a, <2>r
<1>10. CASE EdgeShutdown
  <2>e. EdgeTypes'
    BY <1>10 DEF EdgeShutdown, EdgeTypes, Listeners, edgeVars
  <2>t. TableTypes'
    BY <1>10, StillT DEF EdgeShutdown
  <2>c. ConnTypes'
    BY <1>10, StillC DEF EdgeShutdown
  <2>a. SessionTypes'
    BY <1>10, StillA DEF EdgeShutdown, agentVars
  <2>r. RetryTypes'
    BY <1>10, StillR DEF EdgeShutdown, agentVars
  <2> QED
    BY <2>e, <2>t, <2>c, <2>a, <2>r
<1>11. ASSUME NEW l \in Listeners, ListenerStops(l) PROVE Typed'
  <2>e. EdgeTypes'
    BY <1>11 DEF ListenerStops, EdgeTypes, Listeners, edgeVars
  <2>t. TableTypes'
    BY <1>11, StillT DEF ListenerStops
  <2>c. ConnTypes'
    BY <1>11, StillC DEF ListenerStops
  <2>a. SessionTypes'
    BY <1>11, StillA DEF ListenerStops, agentVars
  <2>r. RetryTypes'
    BY <1>11, StillR DEF ListenerStops, agentVars
  <2> QED
    BY <2>e, <2>t, <2>c, <2>a, <2>r
<1>12. CASE ControlReturns
  <2>e. EdgeTypes'
    BY <1>12 DEF ControlReturns, EdgeTypes, Listeners, edgeVars
  <2>t. TableTypes'
    BY <1>12, StillT DEF ControlReturns
  <2>c. ConnTypes'
    BY <1>12, StillC DEF ControlReturns
  <2>a. SessionTypes'
    BY <1>12, StillA DEF ControlReturns, agentVars
  <2>r. RetryTypes'
    BY <1>12, StillR DEF ControlReturns, agentVars
  <2> QED
    BY <2>e, <2>t, <2>c, <2>a, <2>r
<1>13. CASE ShutdownReturns
  <2>e. EdgeTypes'
    BY <1>13 DEF ShutdownReturns, Stop, EdgeTypes, Listeners, edgeVars
  <2>t. TableTypes'
    BY <1>13 DEF ShutdownReturns, Stop, TableTypes, Ids, tableVars
  <2>c. ConnTypes'
    BY <1>13 DEF ShutdownReturns, Stop, ConnTypes, Ids, connVars
  <2>a. SessionTypes'
    BY <1>13, StillA DEF ShutdownReturns, Stop, agentVars
  <2>r. RetryTypes'
    BY <1>13, StillR DEF ShutdownReturns, Stop, agentVars
  <2> QED
    BY <2>e, <2>t, <2>c, <2>a, <2>r
<1>14. CASE Killed
  <2>e. EdgeTypes'
    BY <1>14 DEF Killed, Stop, Fault, EdgeTypes, Listeners, edgeVars
  <2>t. TableTypes'
    BY <1>14 DEF Killed, Stop, Fault, TableTypes, Ids, tableVars
  <2>c. ConnTypes'
    BY <1>14 DEF Killed, Stop, Fault, ConnTypes, Ids, connVars
  <2>a. SessionTypes'
    BY <1>14, StillA DEF Killed, Stop, Fault, agentVars
  <2>r. RetryTypes'
    BY <1>14, StillR DEF Killed, Stop, Fault, agentVars
  <2> QED
    BY <2>e, <2>t, <2>c, <2>a, <2>r
<1>15. ASSUME NEW a \in Agents, HoldUp(a) \/ GoOn(a) PROVE Typed'
  <2>e. EdgeTypes'
    BY <1>15, StillE DEF HoldUp, GoOn
  <2>t. TableTypes'
    BY <1>15, StillT DEF HoldUp, GoOn
  <2>c. ConnTypes'
    BY <1>15, StillC DEF HoldUp, GoOn
  <2>a. SessionTypes'
    BY <1>15 DEF HoldUp, GoOn, Goto, SessionTypes, AgentSteps
  <2>r. RetryTypes'
    BY <1>15, StillR DEF HoldUp, GoOn
  <2> QED
    BY <2>e, <2>t, <2>c, <2>a, <2>r
<1> QED
  BY <1>0, <1>1, <1>2, <1>3, <1>4, <1>5, <1>6, <1>7, <1>8, <1>9, <1>10, <1>11, <1>12, <1>13,
     <1>14, <1>15
     DEF Next, EdgeDrains

-----------------------------------------------------------------------------
(* The counter of run *)

\* Nothing the counter speaks of changes for an agent.
LEMMA CounterStill ==
    ASSUME NEW q \in Agents, Counter(q),
           step'[q] = step[q], attempt'[q] = attempt[q], wait'[q] = wait[q],
           redials'[q] = redials[q]
    PROVE  Counter(q)'
  BY DEF Counter

\* An agent goes from one step of an attempt to the next.
LEMMA CounterActive ==
    ASSUME NEW q \in Agents, Counter(q), step[q] \in Active, step'[q] \in Active,
           attempt'[q] = attempt[q], redials'[q] = redials[q]
    PROVE  Counter(q)'
  BY DEF Counter, Active

\* run ends otherwise than by giving up.
LEMMA CounterEnds ==
    ASSUME NEW q \in Agents, Counter(q), step'[q] \in {"stopped", "failed"},
           redials'[q] = redials[q]
    PROVE  Counter(q)'
  BY DEF Counter, Active

\* run compares the counter with max_retries: as long as that says no, reconnects
\* are left, and when it says yes there are none.
LEMMA RetriesCompared ==
    ASSUME NEW r \in Nat, MaxRetries > 0 => r <= MaxRetries
    PROVE  /\ RetriesSpent(Smaller(r, AttemptMax)) => MaxRetries > 0 /\ r = MaxRetries
           /\ ~RetriesSpent(Smaller(r, AttemptMax)) /\ MaxRetries > 0 => r < MaxRetries
           /\ ~RetriesSpent(0)
  BY BoundsAssumption, WidthAssumption DEF RetriesSpent, Smaller

\* The counter saturates where reconnects are not counted any more.
LEMMA SmallerStep ==
    ASSUME NEW r \in Nat
    PROVE  Smaller(Smaller(r, AttemptMax) + 1, AttemptMax) = Smaller(r + 1, AttemptMax)
  BY BoundsAssumption, WidthAssumption DEF Smaller

\* Nobody has tried anything yet.
LEMMA CountedInit == Init => Counted
  BY BoundsAssumption DEF Init, Counted, Counter, Active, Smaller

\* A step of one agent leaves the counters of the others alone.
LEMMA OneAgent ==
    ASSUME Counted, NEW a \in Agents, Counter(a)',
           \A q \in Agents \ {a} :
              /\ step'[q] = step[q] /\ attempt'[q] = attempt[q]
              /\ wait'[q] = wait[q] /\ redials'[q] = redials[q]
    PROVE  Counted'
<1> SUFFICES ASSUME NEW q \in Agents, q # a PROVE Counter(q)'
  BY DEF Counted
<1> QED
  BY CounterStill DEF Counted

\* run ends: with the retries spent only when all of them were made.
LEMMA RunEndsCounted ==
    ASSUME Typed, Counted, NEW a \in Agents, RunEnds(a)
    PROVE  Counter(a)'
<1>1. /\ step[a] = "returned" /\ Counter(a)
      /\ redials' = redials /\ redials[a] \in Nat
      /\ step'[a] \in {"stopped", "failed", "gave up"}
      /\ step'[a] = "gave up" => RetriesSpent(Tried(a))
  BY DEF RunEnds, Goto, Counted, Typed, SessionTypes, RetryTypes
<1>2. CASE step'[a] \in {"stopped", "failed"}
  BY <1>1, <1>2, CounterEnds
<1>3. CASE step'[a] = "gave up"
  <2>1. MaxRetries > 0 => redials[a] <= MaxRetries
    BY <1>1 DEF Counter
  <2>2. Tried(a) = 0 \/ Tried(a) = Smaller(redials[a], AttemptMax)
    BY <1>1 DEF Tried, Counter, Active
  <2>3. MaxRetries > 0 /\ redials[a] = MaxRetries
    BY <1>1, <1>3, <2>1, <2>2, RetriesCompared
  <2> QED
    BY <1>1, <1>3, <2>3, BoundsAssumption DEF Counter, Active
<1> QED
  BY <1>1, <1>2, <1>3

\* run goes to sleep: the counter gets ahead of the reconnects by one.
LEMMA BackOffCounted ==
    ASSUME Typed, Counted, NEW a \in Agents, BackOff(a)
    PROVE  Counter(a)'
<1> DEFINE r == redials'[a]
<1>1. /\ step[a] = "returned" /\ step'[a] = "sleeping" /\ Counter(a)
      /\ redials[a] \in Nat
      /\ ~RetriesSpent(Tried(a))
      /\ wait'[a] = ReconnectDelay(Tried(a))
      /\ attempt'[a] = Smaller(Tried(a) + 1, AttemptMax)
      /\ r = IF result[a] = "clean" THEN 0 ELSE redials[a]
  BY DEF BackOff, Goto, Counted, Typed, SessionTypes, RetryTypes
<1>2. Tried(a) = Smaller(r, AttemptMax)
  <2>1. CASE result[a] = "clean"
    BY <1>1, <2>1, BoundsAssumption DEF Tried, Smaller
  <2>2. CASE result[a] # "clean"
    BY <1>1, <2>2 DEF Tried, Counter, Active
  <2> QED
    BY <2>1, <2>2
<1>3. r \in Nat /\ (MaxRetries > 0 => r <= MaxRetries)
  BY <1>1, BoundsAssumption DEF Counter
<1> HIDE DEF r
<1>4. attempt'[a] = Smaller(r + 1, AttemptMax)
  BY <1>1, <1>2, <1>3, SmallerStep
<1>5. MaxRetries > 0 => r < MaxRetries
  BY <1>1, <1>2, <1>3, RetriesCompared
<1>6. wait'[a] = ReconnectDelay(Smaller(r, AttemptMax))
  BY <1>1, <1>2
<1> QED
  BY <1>1, <1>3, <1>4, <1>5, <1>6 DEF r, Counter, Active

\* run wakes up: the reconnects catch up.
LEMMA WakeUpCounted ==
    ASSUME Typed, Counted, NEW a \in Agents, WakeUp(a)
    PROVE  Counter(a)'
<1>1. /\ step[a] = "sleeping" /\ Counter(a)
      /\ redials[a] \in Nat /\ attempt' = attempt
      /\ \/ step'[a] = "loop" /\ redials'[a] = redials[a] + 1
         \/ step'[a] = "stopped" /\ redials'[a] = redials[a]
  BY DEF WakeUp, Goto, Counted, Typed, SessionTypes, RetryTypes
<1>2. CASE step'[a] = "loop" /\ redials'[a] = redials[a] + 1
  BY <1>1, <1>2, BoundsAssumption DEF Counter, Active
<1>3. CASE step'[a] = "stopped" /\ redials'[a] = redials[a]
  BY <1>1, <1>3, CounterEnds
<1> QED
  BY <1>1, <1>2, <1>3

\* A step that touches no counter.
LEMMA NoAgent ==
    ASSUME Counted, UNCHANGED <<step, attempt, wait, redials>>
    PROVE  Counted'
<1> SUFFICES ASSUME NEW q \in Agents PROVE Counter(q)'
  BY DEF Counted
<1> QED
  BY CounterStill DEF Counted

\* Every step keeps the counters.
LEMMA CountedNext == Typed /\ Counted /\ [Next]_vars => Counted'
<1> SUFFICES ASSUME Typed, Counted, [Next]_vars PROVE Counted'
  OBVIOUS
<1>0. CASE UNCHANGED vars
  BY <1>0, NoAgent DEF vars, agentVars
<1>1. ASSUME NEW a \in Agents, AgentRuns(a) PROVE Counted'
  <2>1. CASE LoopTop(a)
    <3>0. /\ Counter(a) /\ attempt' = attempt /\ redials' = redials
          /\ step[a] \in Active /\ step'[a] \in Active \cup {"stopped"}
      BY <2>1 DEF LoopTop, Goto, Counted, Typed, SessionTypes, Active
    <3>1. Counter(a)'
      BY <3>0, CounterActive, CounterEnds
    <3>2. \A q \in Agents \ {a} :
            /\ step'[q] = step[q] /\ attempt'[q] = attempt[q]
            /\ wait'[q] = wait[q] /\ redials'[q] = redials[q]
      BY <2>1 DEF LoopTop, Goto, Typed, SessionTypes, RetryTypes
    <3> QED
      BY <3>1, <3>2, OneAgent
  <2>2. CASE RunEnds(a)
    <3>1. Counter(a)'
      BY <2>2, RunEndsCounted
    <3>2. \A q \in Agents \ {a} :
            /\ step'[q] = step[q] /\ attempt'[q] = attempt[q]
            /\ wait'[q] = wait[q] /\ redials'[q] = redials[q]
      BY <2>2 DEF RunEnds, Goto, Typed, SessionTypes, RetryTypes
    <3> QED
      BY <3>1, <3>2, OneAgent
  <2>3. CASE BackOff(a)
    <3>1. Counter(a)'
      BY <2>3, BackOffCounted
    <3>2. \A q \in Agents \ {a} :
            /\ step'[q] = step[q] /\ attempt'[q] = attempt[q]
            /\ wait'[q] = wait[q] /\ redials'[q] = redials[q]
      BY <2>3 DEF BackOff, Goto, Typed, SessionTypes, RetryTypes
    <3> QED
      BY <3>1, <3>2, OneAgent
  <2>4. CASE WakeUp(a)
    <3>1. Counter(a)'
      BY <2>4, WakeUpCounted
    <3>2. \A q \in Agents \ {a} :
            /\ step'[q] = step[q] /\ attempt'[q] = attempt[q]
            /\ wait'[q] = wait[q] /\ redials'[q] = redials[q]
      BY <2>4 DEF WakeUp, Goto, Typed, SessionTypes, RetryTypes
    <3> QED
      BY <3>1, <3>2, OneAgent
  <2>5. CASE Dial(a)
    <3>0. /\ Counter(a) /\ attempt' = attempt /\ redials' = redials
          /\ step[a] \in Active /\ step'[a] \in Active
      BY <2>5 DEF Dial, Goto, Returned, Counted, Typed, SessionTypes, Active
    <3>1. Counter(a)'
      BY <3>0, CounterActive
    <3>2. \A q \in Agents \ {a} :
            /\ step'[q] = step[q] /\ attempt'[q] = attempt[q]
            /\ wait'[q] = wait[q] /\ redials'[q] = redials[q]
      BY <2>5 DEF Dial, Goto, Returned, Typed, SessionTypes, RetryTypes
    <3> QED
      BY <3>1, <3>2, OneAgent
  <2>6. CASE CallAccepted(a)
    <3>0. /\ Counter(a) /\ attempt' = attempt /\ redials' = redials
          /\ step[a] \in Active /\ step'[a] \in Active
      BY <2>6 DEF CallAccepted, Goto, Counted, Typed, SessionTypes, Active
    <3>1. Counter(a)'
      BY <3>0, CounterActive
    <3>2. \A q \in Agents \ {a} :
            /\ step'[q] = step[q] /\ attempt'[q] = attempt[q]
            /\ wait'[q] = wait[q] /\ redials'[q] = redials[q]
      BY <2>6 DEF CallAccepted, Goto, Typed, SessionTypes, RetryTypes
    <3> QED
      BY <3>1, <3>2, OneAgent
  <2>7. CASE CallRefused(a)
    <3>0. /\ Counter(a) /\ attempt' = attempt /\ redials' = redials
          /\ step[a] \in Active /\ step'[a] \in Active
      BY <2>7 DEF CallRefused, Goto, Returned, Counted, Typed, SessionTypes, Active
    <3>1. Counter(a)'
      BY <3>0, CounterActive
    <3>2. \A q \in Agents \ {a} :
            /\ step'[q] = step[q] /\ attempt'[q] = attempt[q]
            /\ wait'[q] = wait[q] /\ redials'[q] = redials[q]
      BY <2>7 DEF CallRefused, Goto, Returned, Typed, SessionTypes, RetryTypes
    <3> QED
      BY <3>1, <3>2, OneAgent
  <2>8. CASE Welcomed(a)
    BY <2>8, NoAgent DEF Welcomed
  <2>9. CASE LeaveSession(a)
    <3>0. /\ Counter(a) /\ attempt' = attempt /\ redials' = redials
          /\ step[a] \in Active /\ step'[a] \in Active
      BY <2>9 DEF LeaveSession, Goto, Returned, Counted, Typed, SessionTypes, Active
    <3>1. Counter(a)'
      BY <3>0, CounterActive
    <3>2. \A q \in Agents \ {a} :
            /\ step'[q] = step[q] /\ attempt'[q] = attempt[q]
            /\ wait'[q] = wait[q] /\ redials'[q] = redials[q]
      BY <2>9 DEF LeaveSession, Goto, Returned, Typed, SessionTypes, RetryTypes
    <3> QED
      BY <3>1, <3>2, OneAgent
  <2>10. CASE StreamOver(a)
    <3>0. /\ Counter(a) /\ attempt' = attempt /\ redials' = redials
          /\ step[a] \in Active /\ step'[a] \in Active
      BY <2>10 DEF StreamOver, Goto, Returned, Counted, Typed, SessionTypes, Active
    <3>1. Counter(a)'
      BY <3>0, CounterActive
    <3>2. \A q \in Agents \ {a} :
            /\ step'[q] = step[q] /\ attempt'[q] = attempt[q]
            /\ wait'[q] = wait[q] /\ redials'[q] = redials[q]
      BY <2>10 DEF StreamOver, Goto, Returned, Typed, SessionTypes, RetryTypes
    <3> QED
      BY <3>1, <3>2, OneAgent
  <2> QED
    BY <1>1, <2>1, <2>2, <2>3, <2>4, <2>5, <2>6, <2>7, <2>8, <2>9, <2>10 DEF AgentRuns
<1>2. ASSUME NEW a \in Agents, CtrlC(a) PROVE Counted'
  BY <1>2, NoAgent DEF CtrlC
<1>3. ASSUME NEW a \in Agents, Exit(a) PROVE Counted'
  <2>0. /\ Counter(a) /\ attempt' = attempt /\ redials' = redials
        /\ step'[a] = "stopped"
    BY <1>3 DEF Exit, Goto, Counted, Typed, SessionTypes, Active
  <2>1. Counter(a)'
    BY <2>0, CounterEnds
  <2>2. \A q \in Agents \ {a} :
          /\ step'[q] = step[q] /\ attempt'[q] = attempt[q]
          /\ wait'[q] = wait[q] /\ redials'[q] = redials[q]
    BY <1>3 DEF Exit, Goto, Typed, SessionTypes, RetryTypes
  <2> QED
    BY <2>1, <2>2, OneAgent
<1>4. ASSUME NEW a \in Agents, RegisterTunnel(a) PROVE Counted'
  BY <1>4, NoAgent DEF RegisterTunnel
<1>5. ASSUME NEW a \in Agents, Expire(a) PROVE Counted'
  BY <1>5, NoAgent DEF Expire, agentVars
<1>6. ASSUME NEW a \in Agents, NEW i \in Ids, ReadEnds(a, i) PROVE Counted'
  BY <1>6, NoAgent DEF ReadEnds, Fault, agentVars
<1>7. ASSUME NEW a \in Agents, NEW i \in Ids, Teardown(a, i) PROVE Counted'
  BY <1>7, NoAgent DEF Teardown, agentVars
<1>8. ASSUME NEW a \in Agents, NEW i \in Ids, ConnectionLost(a, i) PROVE Counted'
  BY <1>8, NoAgent DEF ConnectionLost, Fault, agentVars
<1>9. CASE EdgeStart
  BY <1>9, NoAgent DEF EdgeStart, agentVars
<1>10. CASE EdgeShutdown
  BY <1>10, NoAgent DEF EdgeShutdown, agentVars
<1>11. ASSUME NEW l \in Listeners, ListenerStops(l) PROVE Counted'
  BY <1>11, NoAgent DEF ListenerStops, agentVars
<1>12. CASE ControlReturns
  BY <1>12, NoAgent DEF ControlReturns, agentVars
<1>13. CASE ShutdownReturns
  BY <1>13, NoAgent DEF ShutdownReturns, Stop, agentVars
<1>14. CASE Killed
  BY <1>14, NoAgent DEF Killed, Stop, Fault, agentVars
<1>15. ASSUME NEW a \in Agents, HoldUp(a) \/ GoOn(a) PROVE Counted'
  <2>0. /\ Counter(a) /\ attempt' = attempt /\ redials' = redials
        /\ step[a] \in Active /\ step'[a] \in Active
    BY <1>15 DEF HoldUp, GoOn, Goto, Counted, Typed, SessionTypes, Active
  <2>1. Counter(a)'
    BY <2>0, CounterActive
  <2>2. \A q \in Agents \ {a} :
          /\ step'[q] = step[q] /\ attempt'[q] = attempt[q]
          /\ wait'[q] = wait[q] /\ redials'[q] = redials[q]
    BY <1>15 DEF HoldUp, GoOn, Goto, Typed, SessionTypes, RetryTypes
  <2> QED
    BY <2>1, <2>2, OneAgent
<1> QED
  BY <1>0, <1>1, <1>2, <1>3, <1>4, <1>5, <1>6, <1>7, <1>8, <1>9, <1>10, <1>11, <1>12, <1>13,
     <1>14, <1>15
     DEF Next, EdgeDrains

-----------------------------------------------------------------------------
(* The route of a tunnel told to be online *)

\* Nothing an agent knows changes, nor its route; its connection may break and its
\* session may end.
LEMMA RoutedStill ==
    ASSUME NEW q \in Agents, Routed(q),
           step'[q] = step[q], told'[q] = told[q], life'[q] = life[q],
           route'[q] = route[q],
           life[q] \in Ids =>
              /\ conn'[q][life[q]] = "up" => conn[q][life[q]] = "up"
              /\ phase'[q][life[q]] = "open" => phase[q][life[q]] = "open"
    PROVE  Routed(q)'
<1> DEFINE i == life[q]
           c == conn[q][i]
           d == conn'[q][i]
           p == phase[q][i]
           r == phase'[q][i]
<1>1. /\ told[q] # "none" => step[q] \in {"serving", "held"}
      /\ step[q] \in {"serving", "held"} => i \in Ids
      /\ told[q] = "ready" /\ c = "up" /\ p = "open" => route[q] = i
  BY DEF Routed
<1>2. i \in Ids => (d = "up" => c = "up") /\ (r = "open" => p = "open")
  OBVIOUS
<1>3. /\ life'[q] = i /\ conn'[q][life'[q]] = d /\ phase'[q][life'[q]] = r
  OBVIOUS
<1> HIDE DEF i, c, d, p, r
<1> QED
  BY <1>1, <1>2, <1>3 DEF Routed

\* An agent outside its sessions knows of no tunnel.
LEMMA RoutedOutside ==
    ASSUME NEW q \in Agents, step'[q] \notin {"serving", "held"}, told'[q] = "none"
    PROVE  Routed(q)'
  BY DEF Routed

\* Nobody knows of a tunnel yet.
LEMMA RoutedInit == Init => AllRouted
  BY DEF Init, AllRouted, Routed

\* A step of one agent, or of the edge for one agent, is none of the others'.
LEMMA OneRoute ==
    ASSUME AllRouted, NEW a \in Agents, Routed(a)',
           \A q \in Agents \ {a} :
              /\ step'[q] = step[q] /\ told'[q] = told[q] /\ life'[q] = life[q]
              /\ route'[q] = route[q] /\ conn'[q] = conn[q] /\ phase'[q] = phase[q]
    PROVE  AllRouted'
<1> SUFFICES ASSUME NEW q \in Agents, q # a PROVE Routed(q)'
  BY DEF AllRouted
<1>1. Routed(q)
  BY DEF AllRouted
<1> QED
  BY <1>1, RoutedStill

\* A step that leaves sessions, connections and the table alone.
LEMMA NoRoute ==
    ASSUME AllRouted, UNCHANGED <<step, told, life, route, conn, phase>>
    PROVE  AllRouted'
<1> SUFFICES ASSUME NEW q \in Agents PROVE Routed(q)'
  BY DEF AllRouted
<1> QED
  BY RoutedStill DEF AllRouted

\* With the edge all its sessions end.
LEMMA StopRouted ==
    ASSUME Typed, AllRouted, Stop
    PROVE  AllRouted'
<1> SUFFICES ASSUME NEW q \in Agents PROVE Routed(q)'
  BY DEF AllRouted
<1>1. /\ Routed(q)
      /\ step' = step /\ told' = told /\ life' = life /\ route' = route
      /\ \A i \in Ids : phase'[q][i] = "none"
      /\ \A i \in Ids : conn'[q][i] = "up" => conn[q][i] = "up"
  BY DEF Stop, agentVars, AllRouted
<1> QED
  BY <1>1, RoutedStill

\* A session that ends frees its own route only: the agent's present session, if
\* that is another one, keeps it.
LEMMA TeardownRouted ==
    ASSUME Typed, AllRouted, NEW a \in Agents, NEW i \in Ids, Teardown(a, i)
    PROVE  Routed(a)'
<1>0. /\ Routed(a) /\ step' = step /\ told' = told /\ life' = life
      /\ phase'[a][i] = "none"
      /\ route'[a] = IF route[a] = i THEN 0 ELSE route[a]
  BY DEF Teardown, agentVars, AllRouted, Typed, TableTypes
<1>1. /\ Routed(a) /\ step' = step /\ told' = told /\ life' = life
      /\ phase'[a][i] = "none"
      /\ route'[a] = IF route[a] = i THEN 0 ELSE route[a]
      /\ \A j \in Ids \ {i} : phase'[a][j] = phase[a][j] /\ conn'[a][j] = conn[a][j]
  <2>1. \A j \in Ids \ {i} : phase'[a][j] = phase[a][j]
    BY DEF Teardown, Typed, TableTypes
  <2>2. \A j \in Ids \ {i} : conn'[a][j] = conn[a][j]
    BY DEF Teardown, Typed, ConnTypes
  <2> QED
    BY <1>0, <2>1, <2>2
<1>2. CASE life[a] = i
  BY <1>1, <1>2 DEF Routed
<1>3. CASE life[a] # i /\ told[a] = "ready"
  <2> DEFINE j == life[a]
  <2>1. j \in Ids \ {i} /\ step[a] \in {"serving", "held"}
    BY <1>1, <1>3 DEF Routed
  <2>2. phase'[a][j] = phase[a][j] /\ conn'[a][j] = conn[a][j]
    BY <1>1, <2>1
  <2>3. conn[a][j] = "up" /\ phase[a][j] = "open" => route[a] = j /\ route'[a] = j
    BY <1>1, <1>3 DEF Routed
  <2> QED
    BY <1>1, <1>3, <2>1, <2>2, <2>3 DEF Routed
<1>4. CASE told[a] # "ready"
  BY <1>1, <1>4 DEF Routed
<1> QED
  BY <1>2, <1>3, <1>4

\* A record lapses only when its session is gone.
LEMMA ExpireRouted ==
    ASSUME Typed, AllRouted, NEW a \in Agents, Expire(a)
    PROVE  Routed(a)'
<1>1. /\ Routed(a) /\ step' = step /\ told' = told /\ life' = life
      /\ phase' = phase /\ conn' = conn
      /\ phase[a][route[a]] = "none"
  BY DEF Expire, agentVars, connVars, AllRouted
<1>2. told[a] = "ready" /\ conn[a][life[a]] = "up" => phase[a][life[a]] # "open"
  BY <1>1 DEF Routed
<1> QED
  BY <1>1, <1>2 DEF Routed

\* The agent is told that its tunnel is ready when the route is its session's.
LEMMA RegisterRouted ==
    ASSUME Typed, AllRouted, NEW a \in Agents, RegisterTunnel(a)
    PROVE  Routed(a)'
<1>1. /\ Routed(a) /\ step' = step /\ life' = life
      /\ step[a] = "serving"
      /\ told'[a] = "ready" => route'[a] = life[a]
  BY DEF RegisterTunnel, AllRouted, Typed, TableTypes, SessionTypes
<1> QED
  BY <1>1 DEF Routed

\* A new session knows of no tunnel.
LEMMA CallRouted ==
    ASSUME Typed, AllRouted, NEW a \in Agents, CallAccepted(a)
    PROVE  Routed(a)'
<1>1. /\ Routed(a) /\ step[a] = "calling" /\ step'[a] = "serving"
      /\ told' = told /\ life'[a] \in Ids
  BY DEF CallAccepted, Goto, AllRouted, Typed, SessionTypes
<1> QED
  BY <1>1 DEF Routed

\* Every step keeps the routes of the tunnels told to be online.
LEMMA RoutedNext == Typed /\ AllRouted /\ [Next]_vars => AllRouted'
<1> SUFFICES ASSUME Typed, AllRouted, [Next]_vars PROVE AllRouted'
  OBVIOUS
<1>0. CASE UNCHANGED vars
  BY <1>0, NoRoute DEF vars, agentVars, tableVars, connVars
<1>1. ASSUME NEW a \in Agents, AgentRuns(a) PROVE AllRouted'
  <2>1. CASE LoopTop(a)
    <3>0. step'[a] \notin {"serving", "held"} /\ told'[a] = "none"
      BY <2>1 DEF LoopTop, Goto, Typed, SessionTypes, Routed, AllRouted
    <3>1. Routed(a)'
      BY <3>0, RoutedOutside
    <3>2. \A q \in Agents \ {a} :
            /\ step'[q] = step[q] /\ told'[q] = told[q] /\ life'[q] = life[q]
            /\ route'[q] = route[q] /\ conn'[q] = conn[q] /\ phase'[q] = phase[q]
      BY <2>1
         DEF LoopTop, Goto, tableVars, connVars, Typed, SessionTypes, TableTypes, ConnTypes
    <3> QED
      BY <3>1, <3>2, OneRoute
  <2>2. CASE RunEnds(a)
    <3>0. step'[a] \notin {"serving", "held"} /\ told'[a] = "none"
      BY <2>2 DEF RunEnds, Goto, Typed, SessionTypes, Routed, AllRouted
    <3>1. Routed(a)'
      BY <3>0, RoutedOutside
    <3>2. \A q \in Agents \ {a} :
            /\ step'[q] = step[q] /\ told'[q] = told[q] /\ life'[q] = life[q]
            /\ route'[q] = route[q] /\ conn'[q] = conn[q] /\ phase'[q] = phase[q]
      BY <2>2
         DEF RunEnds, Goto, tableVars, connVars, Typed, SessionTypes, TableTypes, ConnTypes
    <3> QED
      BY <3>1, <3>2, OneRoute
  <2>3. CASE BackOff(a)
    <3>0. step'[a] \notin {"serving", "held"} /\ told'[a] = "none"
      BY <2>3 DEF BackOff, Goto, Typed, SessionTypes, Routed, AllRouted
    <3>1. Routed(a)'
      BY <3>0, RoutedOutside
    <3>2. \A q \in Agents \ {a} :
            /\ step'[q] = step[q] /\ told'[q] = told[q] /\ life'[q] = life[q]
            /\ route'[q] = route[q] /\ conn'[q] = conn[q] /\ phase'[q] = phase[q]
      BY <2>3
         DEF BackOff, Goto, tableVars, connVars, Typed, SessionTypes, TableTypes, ConnTypes
    <3> QED
      BY <3>1, <3>2, OneRoute
  <2>4. CASE WakeUp(a)
    <3>0. step'[a] \notin {"serving", "held"} /\ told'[a] = "none"
      BY <2>4 DEF WakeUp, Goto, Typed, SessionTypes, Routed, AllRouted
    <3>1. Routed(a)'
      BY <3>0, RoutedOutside
    <3>2. \A q \in Agents \ {a} :
            /\ step'[q] = step[q] /\ told'[q] = told[q] /\ life'[q] = life[q]
            /\ route'[q] = route[q] /\ conn'[q] = conn[q] /\ phase'[q] = phase[q]
      BY <2>4
         DEF WakeUp, Goto, tableVars, connVars, Typed, SessionTypes, TableTypes, ConnTypes
    <3> QED
      BY <3>1, <3>2, OneRoute
  <2>5. CASE Dial(a)
    <3>0. step'[a] \notin {"serving", "held"} /\ told'[a] = "none"
      BY <2>5 DEF Dial, Goto, Returned, Typed, SessionTypes, Routed, AllRouted
    <3>1. Routed(a)'
      BY <3>0, RoutedOutside
    <3>2. \A q \in Agents \ {a} :
            /\ step'[q] = step[q] /\ told'[q] = told[q] /\ life'[q] = life[q]
            /\ route'[q] = route[q] /\ conn'[q] = conn[q] /\ phase'[q] = phase[q]
      BY <2>5
         DEF Dial, Goto, Returned, tableVars, connVars, Typed, SessionTypes, TableTypes,
             ConnTypes
    <3> QED
      BY <3>1, <3>2, OneRoute
  <2>6. CASE CallAccepted(a)
    <3>1. Routed(a)'
      BY <2>6, CallRouted
    <3>2. \A q \in Agents \ {a} :
            /\ step'[q] = step[q] /\ told'[q] = told[q] /\ life'[q] = life[q]
            /\ route'[q] = route[q] /\ conn'[q] = conn[q] /\ phase'[q] = phase[q]
      BY <2>6
         DEF CallAccepted, Goto, tableVars, connVars, Typed, SessionTypes, TableTypes,
             ConnTypes
    <3> QED
      BY <3>1, <3>2, OneRoute
  <2>7. CASE CallRefused(a)
    <3>0. step'[a] \notin {"serving", "held"} /\ told'[a] = "none"
      BY <2>7 DEF CallRefused, Goto, Returned, Typed, SessionTypes
    <3>1. Routed(a)'
      BY <3>0, RoutedOutside
    <3>2. \A q \in Agents \ {a} :
            /\ step'[q] = step[q] /\ told'[q] = told[q] /\ life'[q] = life[q]
            /\ route'[q] = route[q] /\ conn'[q] = conn[q] /\ phase'[q] = phase[q]
      BY <2>7
         DEF CallRefused, Goto, Returned, tableVars, connVars, Typed, SessionTypes,
             TableTypes, ConnTypes
    <3> QED
      BY <3>1, <3>2, OneRoute
  <2>8. CASE Welcomed(a)
    <3>0. /\ Routed(a) /\ step' = step /\ life' = life
          /\ told'[a] = "asked" /\ step[a] = "serving"
      BY <2>8 DEF Welcomed, AllRouted, Typed, SessionTypes
    <3>1. Routed(a)'
      BY <3>0 DEF Routed
    <3>2. \A q \in Agents \ {a} :
            /\ step'[q] = step[q] /\ told'[q] = told[q] /\ life'[q] = life[q]
            /\ route'[q] = route[q] /\ conn'[q] = conn[q] /\ phase'[q] = phase[q]
      BY <2>8 DEF Welcomed, tableVars, connVars, Typed, SessionTypes, TableTypes, ConnTypes
    <3> QED
      BY <3>1, <3>2, OneRoute
  <2>9. CASE LeaveSession(a)
    <3>0. step'[a] \notin {"serving", "held"} /\ told'[a] = "none"
      BY <2>9 DEF LeaveSession, Goto, Returned, Typed, SessionTypes
    <3>1. Routed(a)'
      BY <3>0, RoutedOutside
    <3>2. \A q \in Agents \ {a} :
            /\ step'[q] = step[q] /\ told'[q] = told[q] /\ life'[q] = life[q]
            /\ route'[q] = route[q] /\ conn'[q] = conn[q] /\ phase'[q] = phase[q]
      BY <2>9
         DEF LeaveSession, Goto, Returned, tableVars, connVars, Typed, SessionTypes,
             TableTypes, ConnTypes
    <3> QED
      BY <3>1, <3>2, OneRoute
  <2>10. CASE StreamOver(a)
    <3>0. step'[a] \notin {"serving", "held"} /\ told'[a] = "none"
      BY <2>10 DEF StreamOver, Goto, Returned, Typed, SessionTypes
    <3>1. Routed(a)'
      BY <3>0, RoutedOutside
    <3>2. \A q \in Agents \ {a} :
            /\ step'[q] = step[q] /\ told'[q] = told[q] /\ life'[q] = life[q]
            /\ route'[q] = route[q] /\ conn'[q] = conn[q] /\ phase'[q] = phase[q]
      BY <2>10
         DEF StreamOver, Goto, Returned, tableVars, connVars, Typed, SessionTypes,
             TableTypes, ConnTypes
    <3> QED
      BY <3>1, <3>2, OneRoute
  <2> QED
    BY <1>1, <2>1, <2>2, <2>3, <2>4, <2>5, <2>6, <2>7, <2>8, <2>9, <2>10 DEF AgentRuns
<1>2. ASSUME NEW a \in Agents, CtrlC(a) PROVE AllRouted'
  BY <1>2, NoRoute DEF CtrlC, tableVars, connVars
<1>3. ASSUME NEW a \in Agents, Exit(a) PROVE AllRouted'
  <2>0. step'[a] \notin {"serving", "held"} /\ told'[a] = "none"
    BY <1>3 DEF Exit, Goto, Typed, SessionTypes
  <2>1. Routed(a)'
    BY <2>0, RoutedOutside
  <2>2. \A q \in Agents \ {a} :
          /\ step'[q] = step[q] /\ told'[q] = told[q] /\ life'[q] = life[q]
          /\ route'[q] = route[q] /\ conn'[q] = conn[q] /\ phase'[q] = phase[q]
    BY <1>3 DEF Exit, Goto, tableVars, connVars, Typed, SessionTypes, TableTypes, ConnTypes
  <2> QED
    BY <2>1, <2>2, OneRoute
<1>4. ASSUME NEW a \in Agents, RegisterTunnel(a) PROVE AllRouted'
  <2>1. Routed(a)'
    BY <1>4, RegisterRouted
  <2>2. \A q \in Agents \ {a} :
          /\ step'[q] = step[q] /\ told'[q] = told[q] /\ life'[q] = life[q]
          /\ route'[q] = route[q] /\ conn'[q] = conn[q] /\ phase'[q] = phase[q]
    BY <1>4
       DEF RegisterTunnel, tableVars, connVars, Typed, SessionTypes, TableTypes, ConnTypes
  <2> QED
    BY <2>1, <2>2, OneRoute
<1>5. ASSUME NEW a \in Agents, Expire(a) PROVE AllRouted'
  <2>1. Routed(a)'
    BY <1>5, ExpireRouted
  <2>2. \A q \in Agents \ {a} :
          /\ step'[q] = step[q] /\ told'[q] = told[q] /\ life'[q] = life[q]
          /\ route'[q] = route[q] /\ conn'[q] = conn[q] /\ phase'[q] = phase[q]
    BY <1>5
       DEF Expire, tableVars, connVars, agentVars, Typed, SessionTypes, TableTypes,
           ConnTypes
  <2> QED
    BY <2>1, <2>2, OneRoute
<1>6. ASSUME NEW a \in Agents, NEW i \in Ids, ReadEnds(a, i) PROVE AllRouted'
  <2>a. /\ Routed(a) /\ step' = step /\ told' = told /\ life' = life /\ route' = route
        /\ \A j \in Ids : phase'[a][j] = "open" => phase[a][j] = "open"
        /\ \A j \in Ids : conn'[a][j] = "up" => conn[a][j] = "up"
    BY <1>6 DEF ReadEnds, agentVars, tableVars, AllRouted, Typed, TableTypes, ConnTypes
  <2>b. life[a] \in Ids =>
          /\ conn'[a][life[a]] = "up" => conn[a][life[a]] = "up"
          /\ phase'[a][life[a]] = "open" => phase[a][life[a]] = "open"
    BY <2>a
  <2>1. Routed(a)'
    BY <2>a, <2>b, RoutedStill
  <2>2. \A q \in Agents \ {a} :
          /\ step'[q] = step[q] /\ told'[q] = told[q] /\ life'[q] = life[q]
          /\ route'[q] = route[q] /\ conn'[q] = conn[q] /\ phase'[q] = phase[q]
    BY <1>6
       DEF ReadEnds, Fault, tableVars, connVars, agentVars, Typed, SessionTypes, TableTypes,
           ConnTypes
  <2> QED
    BY <2>1, <2>2, OneRoute
<1>7. ASSUME NEW a \in Agents, NEW i \in Ids, Teardown(a, i) PROVE AllRouted'
  <2>1. Routed(a)'
    BY <1>7, TeardownRouted
  <2>2. \A q \in Agents \ {a} :
          /\ step'[q] = step[q] /\ told'[q] = told[q] /\ life'[q] = life[q]
          /\ route'[q] = route[q] /\ conn'[q] = conn[q] /\ phase'[q] = phase[q]
    BY <1>7
       DEF Teardown, tableVars, connVars, agentVars, Typed, SessionTypes, TableTypes,
           ConnTypes
  <2> QED
    BY <2>1, <2>2, OneRoute
<1>8. ASSUME NEW a \in Agents, NEW i \in Ids, ConnectionLost(a, i) PROVE AllRouted'
  <2>a. /\ Routed(a) /\ step' = step /\ told' = told /\ life' = life /\ route' = route
        /\ \A j \in Ids : phase'[a][j] = "open" => phase[a][j] = "open"
        /\ \A j \in Ids : conn'[a][j] = "up" => conn[a][j] = "up"
    BY <1>8
       DEF ConnectionLost, agentVars, tableVars, AllRouted, Typed, TableTypes, ConnTypes
  <2>b. life[a] \in Ids =>
          /\ conn'[a][life[a]] = "up" => conn[a][life[a]] = "up"
          /\ phase'[a][life[a]] = "open" => phase[a][life[a]] = "open"
    BY <2>a
  <2>1. Routed(a)'
    BY <2>a, <2>b, RoutedStill
  <2>2. \A q \in Agents \ {a} :
          /\ step'[q] = step[q] /\ told'[q] = told[q] /\ life'[q] = life[q]
          /\ route'[q] = route[q] /\ conn'[q] = conn[q] /\ phase'[q] = phase[q]
    BY <1>8
       DEF ConnectionLost, Fault, tableVars, connVars, agentVars, Typed, SessionTypes,
           TableTypes, ConnTypes
  <2> QED
    BY <2>1, <2>2, OneRoute
<1>9. CASE EdgeStart
  BY <1>9, NoRoute DEF EdgeStart, tableVars, connVars, agentVars
<1>10. CASE EdgeShutdown
  BY <1>10, NoRoute DEF EdgeShutdown, tableVars, connVars, agentVars
<1>11. ASSUME NEW l \in Listeners, ListenerStops(l) PROVE AllRouted'
  BY <1>11, NoRoute DEF ListenerStops, tableVars, connVars, agentVars
<1>12. CASE ControlReturns
  BY <1>12, NoRoute DEF ControlReturns, tableVars, connVars, agentVars
<1>13. CASE ShutdownReturns
  BY <1>13, StopRouted DEF ShutdownReturns
<1>14. CASE Killed
  BY <1>14, StopRouted DEF Killed
<1>15. ASSUME NEW a \in Agents, HoldUp(a) \/ GoOn(a) PROVE AllRouted'
  <2>0. /\ Routed(a) /\ UNCHANGED <<told, life, route, conn, phase>>
        /\ step[a] \in {"serving", "held"} /\ step'[a] \in {"serving", "held"}
    BY <1>15
       DEF HoldUp, GoOn, Goto, tableVars, connVars, AllRouted, Typed, SessionTypes
  <2>1. Routed(a)'
    BY <2>0 DEF Routed
  <2>2. \A q \in Agents \ {a} :
          /\ step'[q] = step[q] /\ told'[q] = told[q] /\ life'[q] = life[q]
          /\ route'[q] = route[q] /\ conn'[q] = conn[q] /\ phase'[q] = phase[q]
    BY <1>15, <2>0 DEF HoldUp, GoOn, Goto, Typed, SessionTypes
  <2> QED
    BY <2>1, <2>2, OneRoute
<1> QED
  BY <1>0, <1>1, <1>2, <1>3, <1>4, <1>5, <1>6, <1>7, <1>8, <1>9, <1>10, <1>11, <1>12, <1>13,
     <1>14, <1>15
     DEF Next, EdgeDrains

-----------------------------------------------------------------------------
(* Theorems *)

\* IndInv holds in every state of every behaviour of agents (run, run_session) and
\* edge (start_with_registry, shutdown).
THEOREM Invariance == Spec => []IndInv
<1>1. Init => IndInv
  BY TypesInit, TypesByOwner, CountedInit, RoutedInit DEF IndInv
<1>2. IndInv /\ [Next]_vars => IndInv'
  <2> SUFFICES ASSUME IndInv, [Next]_vars PROVE IndInv'
    OBVIOUS
  <2>1. Typed /\ Counted /\ AllRouted
    BY TypesByOwner DEF IndInv
  <2>2. Typed'
    BY <2>1, TypesNext
  <2>3. TypeOK'
    BY <2>2 DEF TypeOK, Typed, EdgeTypes, TableTypes, ConnTypes, SessionTypes, RetryTypes
  <2>4. Counted' /\ AllRouted'
    BY <2>1, CountedNext, RoutedNext
  <2> QED
    BY <2>3, <2>4 DEF IndInv
<1> QED
  BY <1>1, <1>2, PTL DEF Spec

\* Every variable keeps its type: no session outside the ids, no attempt beyond
\* a u32, no delay beyond MAX_MS (run, reconnect_delay).
THEOREM TypeCorrect == Spec => []TypeOK
<1>1. IndInv => TypeOK
  BY DEF IndInv
<1> QED
  BY <1>1, Invariance, PTL

\* The delay doubles from 250 ms with every reconnect in a row and stays at 30 s from
\* the eighth on, however many there are: neither the saturated counter nor the
\* capped shift shows (run, reconnect_delay).
THEOREM DelaysScheduled == Spec => []BackoffSchedule
<1>1. IndInv => BackoffSchedule
  <2> SUFFICES ASSUME IndInv, NEW a \in Agents, step[a] = "sleeping"
               PROVE  wait[a] = IF redials[a] < 7 THEN BASE_MS * 2 ^ redials[a] ELSE MAX_MS
    BY DEF BackoffSchedule
  <2> DEFINE n == Smaller(redials[a], AttemptMax)
  <2>1. redials[a] \in Nat /\ wait[a] = ReconnectDelay(n)
    BY DEF IndInv, TypeOK, Counted, Counter
  <2>2. /\ n \in Nat
        /\ redials[a] < 7 => n = redials[a]
        /\ ~(redials[a] < 7) => ~(n < 7)
    BY <2>1, BoundsAssumption, WidthAssumption DEF Smaller
  <2> HIDE DEF n
  <2>3. wait[a] = IF n < 7 THEN BASE_MS * 2 ^ n ELSE MAX_MS
    BY <2>1, <2>2, DelayClosed
  <2>4. CASE redials[a] < 7
    BY <2>2, <2>3, <2>4
  <2>5. CASE ~(redials[a] < 7)
    BY <2>2, <2>3, <2>5
  <2> QED
    BY <2>4, <2>5
<1> QED
  BY <1>1, Invariance, PTL

\* An agent gives up after max_retries reconnects in a row, not earlier and not later,
\* for every max_retries a u32 holds (run).
THEOREM GivesUpInTime == Spec => []RetriesHonoured
<1>1. IndInv => RetriesHonoured
  BY DEF IndInv, Counted, Counter, RetriesHonoured
<1> QED
  BY <1>1, Invariance, PTL

\* Whatever becomes of its former sessions, of their records and of the edge, a tunnel
\* that the agent reports as online has its route while session and connection last
\* (run_session, teardown, release).
THEOREM OnlineMeansRouted == Spec => []ReadyIsRouted
<1>1. IndInv => ReadyIsRouted
  BY DEF IndInv, AllRouted, Routed, ReadyIsRouted
<1> QED
  BY <1>1, Invariance, PTL
=============================================================================
