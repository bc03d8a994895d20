------------------------- MODULE ControlPlaneProofs -------------------------
(* Theorems about ControlPlane, for every value of its constants. *)
EXTENDS ControlPlane, FiniteSetTheorems, TLAPS

\* One step of the specification, as its list of actions.
LEMMA NextCases ==
    ASSUME Next
    PROVE  \/ \E s \in Sessions : Handshake(s)
           \/ \E s \in Sessions : ConnectionLost(s)
           \/ \E s \in Sessions, k \in Keys, t \in Tunnels : RegisterTunnel(s, k, t)
           \/ \E s \in Sessions : CallClaim(s)
           \/ \E s \in Sessions : TunnelRegistered(s)
           \/ \E s \in Sessions, t \in Tunnels : CloseTunnel(s, t)
           \/ \E s \in Sessions : TunnelClosed(s)
           \/ \E s \in Sessions : Disconnect(s)
           \/ \E s \in Sessions, t \in Tunnels : TeardownRelease(s, t)
           \/ \E s \in Sessions : TeardownDone(s)
           \/ \E s \in Sessions : BeatStart(s)
           \/ \E s \in Sessions, t \in Tunnels : BeatRenew(s, t)
           \/ \E s \in Sessions : BeatRefused(s)
           \/ \E s \in Sessions : BeatAborted(s)
           \/ \E q \in Requests, n \in Nodes, k \in Keys : Arrive(q, n, k)
           \/ \E q \in Requests : Lookup(q)
           \/ \E q \in Requests : RouteLocal(q)
           \/ \E q \in Requests : RouteRemote(q)
           \/ \E q \in Requests : Cleanup(q)
           \/ \E n \in Nodes : NodeCrash(n)
           \/ Tick
BY Zenon DEF Next, ReadLoop, Heartbeat, Handle

-----------------------------------------------------------------------------
(* The table's operations. *)

\* A claim gives one free key to the session, or changes no owner.
LEMMA ClaimTable ==
    ASSUME TableTypeOK, NEW k \in Keys, NEW s \in Sessions, NEW t \in Tunnels,
           Claim(k, s, t)
    PROVE  /\ TableTypeOK'
           /\ \/ owner' = owner
              \/ owner[k] = NoSession /\ owner' = [owner EXCEPT ![k] = s]
BY TtlAssumption DEF TableTypeOK, Claim, Claimable, table

\* A renewal changes no owner.
LEMMA RenewTable ==
    ASSUME TableTypeOK, NEW k \in Keys, NEW s \in Sessions, Renew(k, s)
    PROVE  TableTypeOK' /\ owner' = owner
BY TtlAssumption DEF TableTypeOK, Renew, Renewable, table

\* A release frees the session's own key, or changes no owner.
LEMMA ReleaseTable ==
    ASSUME TableTypeOK, NEW k \in Keys, NEW s \in Sessions, Release(k, s)
    PROVE  /\ TableTypeOK'
           /\ \/ owner' = owner
              \/ owner[k] = s /\ owner' = [owner EXCEPT ![k] = NoSession]
<1>1. CASE owner[k] = s
  <2>1. owner' = [owner EXCEPT ![k] = NoSession]
    BY <1>1 DEF TableTypeOK, Release, ReleasedBy, Drop
  <2>2. routeTunnel' \in [Keys -> Tunnels \cup {NoTunnel}]
    BY <1>1 DEF TableTypeOK, Release, ReleasedBy, Drop
  <2>3. ttl' \in [Keys -> 0 .. Ttl]
    BY <1>1, TtlAssumption DEF TableTypeOK, Release, ReleasedBy
  <2> QED BY <1>1, <2>1, <2>2, <2>3 DEF TableTypeOK
<1>2. CASE owner[k] # s
  BY <1>2 DEF TableTypeOK, Release, ReleasedBy, table
<1> QED BY <1>1, <1>2

\* Time frees the keys whose last interval ended.
LEMMA TickTable ==
    ASSUME TableTypeOK, TableTick
    PROVE  /\ TableTypeOK'
           /\ owner' = [k \in Keys |-> IF owner[k] # NoSession /\ ttl[k] = 1
                                       THEN NoSession ELSE owner[k]]
BY TtlAssumption DEF TableTypeOK, TableTick, Drop, Expiring

\* The outcome of a call counts at most MaxErrors errors.
LEMMA OutcomeCounts ==
    ASSUME errors \in 0 .. MaxErrors, NEW o \in Outcomes, Outcome(o)
    PROVE  errors' \in 0 .. MaxErrors
BY LimitAssumption DEF Outcome

\* A request handler's step is an update of its own request, within the type.
LEMMA RequestUpdate ==
    ASSUME request \in [Requests -> RequestStates], NEW q \in Requests,
           NEW r \in RequestStates, request' = [request EXCEPT ![q] = r]
    PROVE  /\ request' \in [Requests -> RequestStates]
           /\ request'[q] = r
           /\ \A p \in Requests \ {q} : request'[p] = request[p]
OBVIOUS

\* Changing a request's step and what it found stays within the type.
LEMMA RequestFields ==
    ASSUME request \in [Requests -> RequestStates], NEW q \in Requests,
           NEW st \in RequestSteps, NEW f \in Sessions \cup {NoSession},
           request' = [request EXCEPT ![q].step = st, ![q].found = f]
    PROVE  /\ request' \in [Requests -> RequestStates]
           /\ request'[q].step = st /\ request'[q].found = f
           /\ request'[q].key = request[q].key
<1>1. request'[q] = [request[q] EXCEPT !.step = st, !.found = f]
  OBVIOUS
<1>2. request[q] \in RequestStates
  OBVIOUS
<1>3. /\ request'[q].step = st /\ request'[q].found = f
      /\ request'[q].key = request[q].key
  BY <1>1, <1>2 DEF RequestStates
<1>4. request'[q] \in RequestStates
  BY <1>1, <1>2 DEF RequestStates
<1> QED BY <1>3, <1>4

\* Changing one request's step stays within the type.
LEMMA RequestStep ==
    ASSUME request \in [Requests -> RequestStates], NEW q \in Requests,
           NEW st \in RequestSteps, request' = [request EXCEPT ![q].step = st]
    PROVE  /\ request' \in [Requests -> RequestStates]
           /\ request'[q].step = st /\ request'[q].found = request[q].found
           /\ request'[q].key = request[q].key
           /\ \A p \in Requests \ {q} : request'[p] = request[p]
BY DEF RequestStates

\* What a lookup does to its request: it ends in a 502 or a 404, or found the
\* session that owns the key.
LEMMA LookupRequest ==
    ASSUME TableTypeOK, request \in [Requests -> RequestStates], NEW q \in Requests,
           request[q].key \in Keys, Lookup(q)
    PROVE  /\ request' \in [Requests -> RequestStates]
           /\ request'[q].key = request[q].key
           /\ \/ request'[q].step \in {"502", "404"}
              \/ /\ request'[q].step = "route" /\ request'[q].found \in Sessions
                 /\ request'[q].found = owner[request[q].key]
           /\ \A p \in Requests \ {q} : request'[p] = request[p]
<1>1. PICK st \in {"502", "404", "route"}, f \in Sessions \cup {NoSession} :
        /\ request' = [request EXCEPT ![q].step = st, ![q].found = f]
        /\ st = "route" => f = owner[request[q].key] /\ f \in Sessions
  BY NullAssumption DEF Lookup, TableTypeOK
<1>2. /\ request'[q].step = st /\ request'[q].found = f
      /\ request'[q].key = request[q].key /\ request' \in [Requests -> RequestStates]
  <2>1. st \in RequestSteps
    BY DEF RequestSteps, Answers
  <2> QED BY <1>1, <2>1, RequestFields
<1>3. \A p \in Requests \ {q} : request'[p] = request[p]
  BY <1>1
<1> QED BY <1>1, <1>2, <1>3

-----------------------------------------------------------------------------
(* The inductive invariant. *)

\* What the tasks hold in their hands are tunnels that were given a key.
HandsOK ==
    /\ \A s \in Sessions : reader[s] \in {"claim", "acquired", "release"} =>
          inHand[s] \in Tunnels /\ tunnelKey[inHand[s]] \in Keys
    /\ \A s \in Sessions : \A t \in tunnels[s] \cup toRelease[s] \cup toRenew[s] :
          tunnelKey[t] \in Keys
    /\ \A s \in Sessions : beat[s] = "refused" => refused[s] \in Tunnels

\* The read loop's step agrees with the session's phase, and a session that never
\* started holds nothing.
PhasesOK ==
    /\ \A s \in Sessions : Reading(s) <=> reader[s] \in {"idle", "claim", "acquired", "release"}
    /\ \A s \in Sessions : phase[s] = "closing" <=> reader[s] = "teardown"
    /\ \A k \in Keys : owner[k] \in Sessions => phase[owner[k]] # "new"

\* What a request found is a session that started; one to clean up after is gone.
RequestsOK ==
    \A q \in Requests :
        /\ request[q].step \in {"lookup", "route", "cleanup"} => request[q].key \in Keys
        /\ request[q].step \in {"route", "cleanup"} =>
              request[q].found \in Sessions /\ phase[request[q].found] # "new"
        /\ request[q].step = "cleanup" => phase[request[q].found] = "gone"

IndInv == TypeOK /\ HandsOK /\ PhasesOK /\ RequestsOK

\* Init establishes the invariant.
LEMMA InitIndInv == Init => IndInv
BY TtlAssumption, LimitAssumption, NullAssumption, KeyAssumption
   DEF Init, TableInit, IndInv, TypeOK, TableTypeOK, Phases, ReaderSteps, BeatSteps,
       RequestSteps, Answers, RequestStates, HandsOK, PhasesOK, RequestsOK, Reading

\* Every action preserves it.
LEMMA NextIndInv ==
    ASSUME IndInv, Next
    PROVE IndInv'
<1> USE NullAssumption, NodesAssumption, KeyAssumption
<1> USE DEF IndInv, TypeOK, Phases, ReaderSteps, BeatSteps, RequestSteps, Answers,
            sessionVars, readerVars, beatVars, faultVars, table, Reading
<1>1. CASE \E s \in Sessions : Handshake(s)
  <2> SUFFICES ASSUME NEW s \in Sessions, Handshake(s) PROVE IndInv'
    BY <1>1
  <2>1. TypeOK'
    BY DEF Handshake, TableTypeOK, HandsOK
  <2>2. HandsOK'
    BY DEF Handshake, TableTypeOK, HandsOK
  <2>3. PhasesOK'
    BY DEF Handshake, TableTypeOK, PhasesOK
  <2>4. RequestsOK'
    BY DEF Handshake, TableTypeOK, PhasesOK, RequestsOK
  <2> QED BY <2>1, <2>2, <2>3, <2>4
<1>2. CASE \E s \in Sessions : ConnectionLost(s)
  <2> SUFFICES ASSUME NEW s \in Sessions, ConnectionLost(s) PROVE IndInv'
    BY <1>2
  <2>1. TypeOK'
    BY DEF ConnectionLost, TableTypeOK, HandsOK
  <2>2. HandsOK'
    BY DEF ConnectionLost, TableTypeOK, HandsOK
  <2>3. PhasesOK'
    BY DEF ConnectionLost, TableTypeOK, PhasesOK
  <2>4. RequestsOK'
    BY DEF ConnectionLost, TableTypeOK, PhasesOK, RequestsOK
  <2> QED BY <2>1, <2>2, <2>3, <2>4
<1>3. CASE \E s \in Sessions, k \in Keys, t \in Tunnels : RegisterTunnel(s, k, t)
  <2> SUFFICES ASSUME NEW s \in Sessions, NEW k \in Keys, NEW t \in Tunnels, RegisterTunnel(s, k, t)
               PROVE  IndInv'
    BY <1>3
  <2>1. TypeOK'
    BY DEF RegisterTunnel, TableTypeOK, HandsOK
  <2>2. HandsOK'
    BY DEF RegisterTunnel, TableTypeOK, HandsOK
  <2>3. PhasesOK'
    BY DEF RegisterTunnel, TableTypeOK, PhasesOK
  <2>4. RequestsOK'
    BY DEF RegisterTunnel, TableTypeOK, PhasesOK, RequestsOK
  <2> QED BY <2>1, <2>2, <2>3, <2>4
<1>4. CASE \E s \in Sessions : CallClaim(s)
  <2> SUFFICES ASSUME NEW s \in Sessions, CallClaim(s) PROVE IndInv'
    BY <1>4
  <2>a. inHand[s] \in Tunnels /\ tunnelKey[inHand[s]] \in Keys /\ Reading(s)
    BY DEF CallClaim, HandsOK, PhasesOK
  <2>b. TableTypeOK' /\ (owner' = owner \/ owner' = [owner EXCEPT ![tunnelKey[inHand[s]]] = s])
    BY <2>a, ClaimTable DEF CallClaim, TableTypeOK
  <2>c. /\ errors' \in 0 .. MaxErrors /\ tainted' \in SUBSET Sessions
        /\ \/ reader' = [reader EXCEPT ![s] = "acquired"] /\ inHand' = inHand
           \/ reader' = [reader EXCEPT ![s] = "idle"] /\ inHand' = [inHand EXCEPT ![s] = NoTunnel]
    <3>1. errors' \in 0 .. MaxErrors /\ tainted' \in SUBSET Sessions
      BY OutcomeCounts DEF CallClaim, Taints
    <3>2. \/ reader' = [reader EXCEPT ![s] = "acquired"] /\ inHand' = inHand
          \/ reader' = [reader EXCEPT ![s] = "idle"] /\ inHand' = [inHand EXCEPT ![s] = NoTunnel]
      BY DEF CallClaim
    <3> QED BY <3>1, <3>2
  <2>d. UNCHANGED <<sessionVars, toRelease, beatVars, request, crashes>>
    BY DEF CallClaim
  <2>1. TypeOK'
    BY <2>a, <2>b, <2>c, <2>d DEF TableTypeOK, HandsOK
  <2>2. HandsOK'
    BY <2>a, <2>b, <2>c, <2>d DEF TableTypeOK, HandsOK
  <2>3. PhasesOK'
    BY <2>a, <2>b, <2>c, <2>d DEF TableTypeOK, PhasesOK
  <2>4. RequestsOK'
    BY <2>a, <2>b, <2>c, <2>d DEF TableTypeOK, PhasesOK, RequestsOK
  <2> QED BY <2>1, <2>2, <2>3, <2>4
<1>5. CASE \E s \in Sessions : TunnelRegistered(s)
  <2> SUFFICES ASSUME NEW s \in Sessions, TunnelRegistered(s) PROVE IndInv'
    BY <1>5
  <2>1. TypeOK'
    BY DEF TunnelRegistered, TableTypeOK, HandsOK
  <2>2. HandsOK'
    BY DEF TunnelRegistered, TableTypeOK, HandsOK
  <2>3. PhasesOK'
    BY DEF TunnelRegistered, TableTypeOK, PhasesOK
  <2>4. RequestsOK'
    BY DEF TunnelRegistered, TableTypeOK, PhasesOK, RequestsOK
  <2> QED BY <2>1, <2>2, <2>3, <2>4
<1>6. CASE \E s \in Sessions, t \in Tunnels : CloseTunnel(s, t)
  <2> SUFFICES ASSUME NEW s \in Sessions, NEW t \in Tunnels, CloseTunnel(s, t) PROVE IndInv'
    BY <1>6
  <2>1. TypeOK'
    BY DEF CloseTunnel, TableTypeOK, HandsOK
  <2>2. HandsOK'
    BY DEF CloseTunnel, TableTypeOK, HandsOK
  <2>3. PhasesOK'
    BY DEF CloseTunnel, TableTypeOK, PhasesOK
  <2>4. RequestsOK'
    BY DEF CloseTunnel, TableTypeOK, PhasesOK, RequestsOK
  <2> QED BY <2>1, <2>2, <2>3, <2>4
<1>7. CASE \E s \in Sessions : TunnelClosed(s)
  <2> SUFFICES ASSUME NEW s \in Sessions, TunnelClosed(s) PROVE IndInv'
    BY <1>7
  <2>a. inHand[s] \in Tunnels /\ tunnelKey[inHand[s]] \in Keys
    BY DEF TunnelClosed, HandsOK
  <2>b. TableTypeOK' /\ (owner' = owner \/ owner' = [owner EXCEPT ![tunnelKey[inHand[s]]] = NoSession])
    BY <2>a, ReleaseTable DEF TunnelClosed, CallRelease, TableTypeOK
  <2>c. errors' \in 0 .. MaxErrors /\ tainted' \in SUBSET Sessions
    BY <2>a, OutcomeCounts DEF TunnelClosed, CallRelease, Taints
  <2>1. TypeOK'
    BY <2>a, <2>b, <2>c DEF TunnelClosed, TableTypeOK, HandsOK
  <2>2. HandsOK'
    BY <2>a, <2>b, <2>c DEF TunnelClosed, TableTypeOK, HandsOK
  <2>3. PhasesOK'
    BY <2>a, <2>b, <2>c DEF TunnelClosed, TableTypeOK, PhasesOK
  <2>4. RequestsOK'
    BY <2>a, <2>b, <2>c DEF TunnelClosed, TableTypeOK, PhasesOK, RequestsOK
  <2> QED BY <2>1, <2>2, <2>3, <2>4
<1>8. CASE \E s \in Sessions : Disconnect(s)
  <2> SUFFICES ASSUME NEW s \in Sessions, Disconnect(s) PROVE IndInv'
    BY <1>8
  <2>1. TypeOK'
    BY DEF Disconnect, TableTypeOK, HandsOK
  <2>2. HandsOK'
    BY DEF Disconnect, TableTypeOK, HandsOK
  <2>3. PhasesOK'
    BY DEF Disconnect, TableTypeOK, PhasesOK
  <2>4. RequestsOK'
    BY DEF Disconnect, TableTypeOK, PhasesOK, RequestsOK
  <2> QED BY <2>1, <2>2, <2>3, <2>4
<1>9. CASE \E s \in Sessions, t \in Tunnels : TeardownRelease(s, t)
  <2> SUFFICES ASSUME NEW s \in Sessions, NEW t \in Tunnels, TeardownRelease(s, t) PROVE IndInv'
    BY <1>9
  <2>a. t \in Tunnels /\ tunnelKey[t] \in Keys
    BY DEF TeardownRelease, HandsOK
  <2>b. TableTypeOK' /\ (owner' = owner \/ owner' = [owner EXCEPT ![tunnelKey[t]] = NoSession])
    BY <2>a, ReleaseTable DEF TeardownRelease, CallRelease, TableTypeOK
  <2>c. errors' \in 0 .. MaxErrors /\ tainted' \in SUBSET Sessions
    BY <2>a, OutcomeCounts DEF TeardownRelease, CallRelease, Taints
  <2>1. TypeOK'
    BY <2>a, <2>b, <2>c DEF TeardownRelease, TableTypeOK, HandsOK
  <2>2. HandsOK'
    BY <2>a, <2>b, <2>c DEF TeardownRelease, TableTypeOK, HandsOK
  <2>3. PhasesOK'
    BY <2>a, <2>b, <2>c DEF TeardownRelease, TableTypeOK, PhasesOK
  <2>4. RequestsOK'
    BY <2>a, <2>b, <2>c DEF TeardownRelease, TableTypeOK, PhasesOK, RequestsOK
  <2> QED BY <2>1, <2>2, <2>3, <2>4
<1>10. CASE \E s \in Sessions : TeardownDone(s)
  <2> SUFFICES ASSUME NEW s \in Sessions, TeardownDone(s) PROVE IndInv'
    BY <1>10
  <2>1. TypeOK'
    BY DEF TeardownDone, TableTypeOK, HandsOK
  <2>2. HandsOK'
    BY DEF TeardownDone, TableTypeOK, HandsOK
  <2>3. PhasesOK'
    BY DEF TeardownDone, TableTypeOK, PhasesOK
  <2>4. RequestsOK'
    BY DEF TeardownDone, TableTypeOK, PhasesOK, RequestsOK
  <2> QED BY <2>1, <2>2, <2>3, <2>4
<1>11. CASE \E s \in Sessions : BeatStart(s)
  <2> SUFFICES ASSUME NEW s \in Sessions, BeatStart(s) PROVE IndInv'
    BY <1>11
  <2>a. NextBeat(s, tunnels[s]) \in {"sleep", "renew", "stopped"}
    BY Zenon DEF NextBeat
  <2>1. TypeOK'
    <3>1. beat' \in [Sessions -> BeatSteps] /\ toRenew' \in [Sessions -> SUBSET Tunnels]
      BY <2>a DEF BeatStart
    <3> QED BY <3>1 DEF BeatStart, TableTypeOK
  <2>2. HandsOK'
    BY <2>a DEF BeatStart, TableTypeOK, HandsOK
  <2>3. PhasesOK'
    BY <2>a DEF BeatStart, TableTypeOK, PhasesOK
  <2>4. RequestsOK'
    BY <2>a DEF BeatStart, TableTypeOK, PhasesOK, RequestsOK
  <2> QED BY <2>1, <2>2, <2>3, <2>4
<1>12. CASE \E s \in Sessions, t \in Tunnels : BeatRenew(s, t)
  <2> SUFFICES ASSUME NEW s \in Sessions, NEW t \in Tunnels, BeatRenew(s, t) PROVE IndInv'
    BY <1>12
  <2>a. tunnelKey[t] \in Keys
    BY DEF BeatRenew, HandsOK
  <2>b. TableTypeOK' /\ owner' = owner
    BY <2>a, RenewTable DEF BeatRenew, TableTypeOK
  <2>c. /\ errors' \in 0 .. MaxErrors
        /\ \/ beat' = [beat EXCEPT ![s] = "refused"] /\ refused' = [refused EXCEPT ![s] = t]
           \/ \E b \in BeatSteps \ {"refused"} :
                 beat' = [beat EXCEPT ![s] = b] /\ refused' = [refused EXCEPT ![s] = NoTunnel]
    BY OutcomeCounts DEF BeatRenew, NextBeat
  <2>d. /\ toRenew' = [toRenew EXCEPT ![s] = @ \ {t}]
        /\ UNCHANGED <<sessionVars, readerVars, request, crashes, tainted>>
    BY DEF BeatRenew
  <2>1. TypeOK'
    BY <2>a, <2>b, <2>c, <2>d DEF HandsOK
  <2>2. HandsOK'
    BY <2>a, <2>b, <2>c, <2>d DEF HandsOK
  <2>3. PhasesOK'
    BY <2>a, <2>b, <2>c DEF BeatRenew, PhasesOK
  <2>4. RequestsOK'
    BY <2>a, <2>b, <2>c DEF BeatRenew, PhasesOK, RequestsOK
  <2> QED BY <2>1, <2>2, <2>3, <2>4
<1>13. CASE \E s \in Sessions : BeatRefused(s)
  <2> SUFFICES ASSUME NEW s \in Sessions, BeatRefused(s) PROVE IndInv'
    BY <1>13
  <2>a. NextBeat(s, {}) \in {"sleep", "renew", "stopped"}
    BY Zenon DEF NextBeat
  <2>1. TypeOK'
    BY <2>a DEF BeatRefused, TableTypeOK, HandsOK
  <2>2. HandsOK'
    BY <2>a DEF BeatRefused, TableTypeOK, HandsOK
  <2>3. PhasesOK'
    BY <2>a DEF BeatRefused, TableTypeOK, PhasesOK
  <2>4. RequestsOK'
    BY <2>a DEF BeatRefused, TableTypeOK, PhasesOK, RequestsOK
  <2> QED BY <2>1, <2>2, <2>3, <2>4
<1>14. CASE \E s \in Sessions : BeatAborted(s)
  <2> SUFFICES ASSUME NEW s \in Sessions, BeatAborted(s) PROVE IndInv'
    BY <1>14
  <2>1. TypeOK'
    BY DEF BeatAborted, TableTypeOK, HandsOK
  <2>2. HandsOK'
    BY DEF BeatAborted, TableTypeOK, HandsOK
  <2>3. PhasesOK'
    BY DEF BeatAborted, TableTypeOK, PhasesOK
  <2>4. RequestsOK'
    BY DEF BeatAborted, TableTypeOK, PhasesOK, RequestsOK
  <2> QED BY <2>1, <2>2, <2>3, <2>4
<1>15. CASE \E q \in Requests, n \in Nodes, k \in Keys : Arrive(q, n, k)
  <2> SUFFICES ASSUME NEW q \in Requests, NEW n \in Nodes, NEW k \in Keys, Arrive(q, n, k)
               PROVE  IndInv'
    BY <1>15
  <2>1. TypeOK'
    BY RequestUpdate DEF Arrive, TableTypeOK, RequestStates
  <2>2. HandsOK'
    BY DEF Arrive, TableTypeOK, HandsOK
  <2>3. PhasesOK'
    BY DEF Arrive, TableTypeOK, PhasesOK
  <2>4. RequestsOK'
    BY DEF Arrive, TableTypeOK, PhasesOK, RequestsOK
  <2> QED BY <2>1, <2>2, <2>3, <2>4
<1>16. CASE \E q \in Requests : Lookup(q)
  <2> SUFFICES ASSUME NEW q \in Requests, Lookup(q) PROVE IndInv'
    BY <1>16
  <2>a. request[q].key \in Keys
    BY DEF Lookup, RequestsOK
  <2>c. /\ request' \in [Requests -> RequestStates]
        /\ request'[q].key = request[q].key
        /\ \/ request'[q].step \in {"502", "404"}
           \/ /\ request'[q].step = "route" /\ request'[q].found \in Sessions
              /\ request'[q].found = owner[request[q].key]
        /\ \A p \in Requests \ {q} : request'[p] = request[p]
    BY <2>a, LookupRequest
  <2>d. /\ errors' \in 0 .. MaxErrors
        /\ UNCHANGED <<table, sessionVars, readerVars, beatVars, crashes, tainted>>
    BY OutcomeCounts DEF Lookup
  <2>1. TypeOK'
    BY <2>c, <2>d DEF TableTypeOK
  <2>2. HandsOK'
    BY <2>d DEF HandsOK
  <2>3. PhasesOK'
    BY <2>d DEF PhasesOK
  <2>4. RequestsOK'
    BY <2>a, <2>c, <2>d DEF PhasesOK, RequestsOK
  <2> QED BY <2>1, <2>2, <2>3, <2>4
<1>17. CASE \E q \in Requests : RouteLocal(q)
  <2> SUFFICES ASSUME NEW q \in Requests, RouteLocal(q) PROVE IndInv'
    BY <1>17
  <2>a. /\ request[q].step = "route"
        /\ UNCHANGED <<table, sessionVars, readerVars, beatVars, faultVars>>
    BY DEF RouteLocal
  <2>b. \E st \in RequestSteps :
          /\ request' = [request EXCEPT ![q].step = st]
          /\ st = "served" \/ (st = "cleanup" /\ ~Registered(request[q].found))
    BY DEF RouteLocal
  <2>c. /\ request' \in [Requests -> RequestStates]
        /\ request'[q].key = request[q].key /\ request'[q].found = request[q].found
        /\ \/ request'[q].step = "served"
           \/ request'[q].step = "cleanup" /\ ~Registered(request[q].found)
        /\ \A p \in Requests \ {q} : request'[p] = request[p]
    BY <2>b, RequestStep
  <2>1. TypeOK'
    BY <2>a, <2>c DEF TableTypeOK
  <2>2. HandsOK'
    BY <2>a DEF HandsOK
  <2>3. PhasesOK'
    BY <2>a DEF PhasesOK
  <2>4. RequestsOK'
    BY <2>a, <2>c DEF RequestsOK, Registered
  <2> QED BY <2>1, <2>2, <2>3, <2>4
<1>18. CASE \E q \in Requests : RouteRemote(q)
  <2> SUFFICES ASSUME NEW q \in Requests, RouteRemote(q) PROVE IndInv'
    BY <1>18
  <2>a. /\ request[q].step = "route"
        /\ UNCHANGED <<table, sessionVars, readerVars, beatVars, faultVars>>
    BY DEF RouteRemote, Forward
  <2>b. request[q].key \in Keys /\ request[q].found \in Sessions /\ request[q].hops \in Nat
    BY <2>a DEF RequestsOK, RequestStates
  <2>c. /\ request' \in [Requests -> RequestStates]
        /\ request'[q].key = request[q].key
        /\ request'[q].step \in {"508", "502", "lookup"}
        /\ \A p \in Requests \ {q} : request'[p] = request[p]
    <3>1. CASE \E st \in {"508", "502"} : request' = [request EXCEPT ![q].step = st]
      BY <3>1, RequestStep
    <3>2. CASE request' = [request EXCEPT ![q] =
                  [step |-> "lookup", key |-> request[q].key, at |-> Home[request[q].found],
                   hops |-> request[q].hops + 1, found |-> NoSession]]
      BY <2>b, <3>2, RequestUpdate DEF RequestStates
    <3> QED BY <3>1, <3>2 DEF RouteRemote, Forward
  <2>1. TypeOK'
    BY <2>a, <2>c DEF TableTypeOK
  <2>2. HandsOK'
    BY <2>a DEF HandsOK
  <2>3. PhasesOK'
    BY <2>a DEF PhasesOK
  <2>4. RequestsOK'
    BY <2>a, <2>b, <2>c DEF RequestsOK
  <2> QED BY <2>1, <2>2, <2>3, <2>4
<1>19. CASE \E q \in Requests : Cleanup(q)
  <2> SUFFICES ASSUME NEW q \in Requests, Cleanup(q) PROVE IndInv'
    BY <1>19
  <2>a. request[q].key \in Keys /\ request[q].found \in Sessions
    BY DEF Cleanup, RequestsOK
  <2>b. TableTypeOK' /\ (owner' = owner \/ owner' = [owner EXCEPT ![request[q].key] = NoSession])
    BY <2>a, ReleaseTable DEF Cleanup, TableTypeOK
  <2>c. /\ request' \in [Requests -> RequestStates]
        /\ request'[q].step = "404"
        /\ \A p \in Requests \ {q} : request'[p] = request[p]
    BY RequestStep DEF Cleanup
  <2>d. /\ errors' \in 0 .. MaxErrors
        /\ UNCHANGED <<sessionVars, readerVars, beatVars, crashes, tainted>>
    BY OutcomeCounts DEF Cleanup
  <2>1. TypeOK'
    BY <2>b, <2>c, <2>d
  <2>2. HandsOK'
    BY <2>d DEF HandsOK
  <2>3. PhasesOK'
    BY <2>a, <2>b, <2>d DEF PhasesOK, TableTypeOK
  <2>4. RequestsOK'
    BY <2>c, <2>d DEF RequestsOK
  <2> QED BY <2>1, <2>2, <2>3, <2>4
<1>20. CASE \E n \in Nodes : NodeCrash(n)
  <2> SUFFICES ASSUME NEW n \in Nodes, NodeCrash(n) PROVE IndInv'
    BY <1>20
  <2>1. TypeOK'
    <3>1. request' \in [Requests -> RequestStates]
      <4>1. \A q \in Requests : request[q] \in RequestStates
        OBVIOUS
      <4>2. \A r \in RequestStates : [r EXCEPT !.step = "502"] \in RequestStates
        BY DEF RequestStates, RequestSteps, Answers
      <4>3. request' = [q \in Requests |->
                IF request[q].at = n /\ request[q].step \in {"lookup", "route", "cleanup"}
                THEN [request[q] EXCEPT !.step = "502"] ELSE request[q]]
        BY DEF NodeCrash
      <4> QED BY <4>1, <4>2, <4>3
    <3>2. /\ phase' \in [Sessions -> Phases] /\ reader' \in [Sessions -> ReaderSteps]
          /\ beat' \in [Sessions -> BeatSteps] /\ tainted' \in SUBSET Sessions
      BY DEF NodeCrash
    <3>3. /\ tunnels' \in [Sessions -> SUBSET Tunnels]
          /\ toRelease' \in [Sessions -> SUBSET Tunnels]
          /\ toRenew' \in [Sessions -> SUBSET Tunnels]
          /\ inHand' \in [Sessions -> Tunnels \cup {NoTunnel}]
          /\ refused' \in [Sessions -> Tunnels \cup {NoTunnel}]
      BY DEF NodeCrash
    <3>4. crashes' \in 0 .. MaxCrashes /\ UNCHANGED <<table, tunnelKey, errors>>
      BY LimitAssumption DEF NodeCrash
    <3> QED BY <3>1, <3>2, <3>3, <3>4 DEF TableTypeOK
  <2>2. HandsOK'
    BY LimitAssumption DEF NodeCrash, TableTypeOK, Registered, HandsOK
  <2>3. PhasesOK'
    BY LimitAssumption DEF NodeCrash, TableTypeOK, Registered, PhasesOK
  <2>4. RequestsOK'
    BY LimitAssumption DEF NodeCrash, TableTypeOK, Registered, PhasesOK, RequestsOK
  <2> QED BY <2>1, <2>2, <2>3, <2>4
<1>21. CASE Tick
  <2>b. TableTypeOK' /\ \A k \in Keys : owner'[k] \in {owner[k], NoSession}
    BY <1>21, TickTable DEF Tick, TableTypeOK
  <2>1. TypeOK'
    BY <1>21, <2>b DEF Tick, TableTypeOK, HandsOK
  <2>2. HandsOK'
    BY <1>21, <2>b DEF Tick, TableTypeOK, HandsOK
  <2>3. PhasesOK'
    BY <1>21, <2>b DEF Tick, TableTypeOK, PhasesOK
  <2>4. RequestsOK'
    BY <1>21, <2>b DEF Tick, TableTypeOK, PhasesOK, RequestsOK
  <2> QED BY <2>1, <2>2, <2>3, <2>4
<1> QED
  BY NextCases, <1>1, <1>2, <1>3, <1>4, <1>5, <1>6, <1>7, <1>8, <1>9, <1>10, <1>11, <1>12,
     <1>13, <1>14, <1>15, <1>16, <1>17, <1>18, <1>19, <1>20, <1>21

\* The specification keeps the inductive invariant.
THEOREM Invariance == Spec => []IndInv
<1>1. IndInv /\ UNCHANGED vars => IndInv'
  BY DEF IndInv, TypeOK, TableTypeOK, HandsOK, PhasesOK, RequestsOK, Reading, vars,
         table, sessionVars, readerVars, beatVars, faultVars
<1> QED BY <1>1, InitIndInv, NextIndInv, PTL DEF Spec

\* Type correctness: every variable of the control plane keeps its type, whatever
\* tasks, nodes and requests interleave and whichever calls fail.
THEOREM TypeCorrect == Spec => []TypeOK
BY Invariance, PTL DEF IndInv

-----------------------------------------------------------------------------
(* Who may change the owner of a key. *)

\* A live session was given a free key.
Acquired(k, s) ==
    /\ Reading(s) /\ owner[k] = NoSession
    /\ owner' = [owner EXCEPT ![k] = s] /\ phase' = phase

\* A key was freed by its own session's read loop, or by a request that found its
\* session gone.
Freed(k) ==
    /\ owner[k] \in Sessions
    /\ \/ ~Registered(owner[k])
       \/ reader[owner[k]] = "release" /\ tunnelKey[inHand[owner[k]]] = k
       \/ reader[owner[k]] = "teardown" /\ \E t \in toRelease[owner[k]] : tunnelKey[t] = k
    /\ owner' = [owner EXCEPT ![k] = NoSession] /\ phase' = phase

\* Leases ran out.
Lapsed ==
    /\ owner' = [k \in Keys |-> IF owner[k] # NoSession /\ ttl[k] = 1
                                THEN NoSession ELSE owner[k]]
    /\ phase' = phase

\* Every step leaves the owners alone or changes them in one of these ways.
LEMMA OwnerSteps ==
    ASSUME IndInv, Next
    PROVE  \/ owner' = owner
           \/ \E k \in Keys, s \in Sessions : Acquired(k, s)
           \/ \E k \in Keys : Freed(k)
           \/ Lapsed
<1> USE DEF IndInv, TypeOK, table, sessionVars
<1>1. CASE \E s \in Sessions : CallClaim(s)
  <2> SUFFICES ASSUME NEW s \in Sessions, CallClaim(s)
               PROVE  owner' = owner \/ Acquired(tunnelKey[inHand[s]], s)
    BY <1>1 DEF CallClaim, HandsOK
  <2>1. inHand[s] \in Tunnels /\ tunnelKey[inHand[s]] \in Keys /\ Reading(s)
    BY DEF CallClaim, HandsOK, PhasesOK
  <2> QED BY <2>1, ClaimTable DEF CallClaim, Acquired
<1>2. CASE \E s \in Sessions : TunnelClosed(s)
  <2> SUFFICES ASSUME NEW s \in Sessions, TunnelClosed(s)
               PROVE  owner' = owner \/ Freed(tunnelKey[inHand[s]])
    BY <1>2 DEF TunnelClosed, HandsOK
  <2>1. inHand[s] \in Tunnels /\ tunnelKey[inHand[s]] \in Keys
    BY DEF TunnelClosed, HandsOK
  <2> DEFINE k == tunnelKey[inHand[s]]
  <2>2. owner' = owner \/ (owner[k] = s /\ owner' = [owner EXCEPT ![k] = NoSession])
    BY <2>1, ReleaseTable DEF TunnelClosed, CallRelease
  <2>3. reader[s] = "release" /\ phase' = phase
    BY DEF TunnelClosed
  <2> QED BY <2>1, <2>2, <2>3 DEF Freed
<1>3. CASE \E s \in Sessions, t \in Tunnels : TeardownRelease(s, t)
  <2> SUFFICES ASSUME NEW s \in Sessions, NEW t \in Tunnels, TeardownRelease(s, t)
               PROVE  owner' = owner \/ Freed(tunnelKey[t])
    BY <1>3 DEF TeardownRelease, HandsOK
  <2>1. tunnelKey[t] \in Keys
    BY DEF TeardownRelease, HandsOK
  <2> DEFINE k == tunnelKey[t]
  <2>2. owner' = owner \/ (owner[k] = s /\ owner' = [owner EXCEPT ![k] = NoSession])
    BY <2>1, ReleaseTable DEF TeardownRelease, CallRelease
  <2>3. reader[s] = "teardown" /\ t \in toRelease[s] /\ phase' = phase
    BY DEF TeardownRelease
  <2> QED BY <2>1, <2>2, <2>3 DEF Freed
<1>4. CASE \E q \in Requests : Cleanup(q)
  <2> SUFFICES ASSUME NEW q \in Requests, Cleanup(q)
               PROVE  owner' = owner \/ Freed(request[q].key)
    BY <1>4 DEF Cleanup, RequestsOK
  <2>1. /\ request[q].key \in Keys /\ request[q].found \in Sessions
        /\ ~Registered(request[q].found)
    BY DEF Cleanup, RequestsOK, Registered
  <2> QED BY <2>1, ReleaseTable DEF Cleanup, Freed
<1>5. CASE \E s \in Sessions, t \in Tunnels : BeatRenew(s, t)
  BY <1>5, RenewTable DEF BeatRenew, HandsOK
<1>6. CASE Tick
  BY <1>6, TickTable DEF Tick, Lapsed
<1>7. CASE owner' = owner
  BY <1>7
<1>8. \/ \E s \in Sessions : CallClaim(s) \/ TunnelClosed(s)
      \/ \E s \in Sessions, t \in Tunnels : TeardownRelease(s, t) \/ BeatRenew(s, t)
      \/ \E q \in Requests : Cleanup(q)
      \/ Tick
      \/ owner' = owner
  BY NextCases, Zenon DEF Handshake, ConnectionLost, RegisterTunnel, TunnelRegistered,
     CloseTunnel, Disconnect, TeardownDone, BeatStart, BeatRefused, BeatAborted, Arrive,
     Lookup, RouteLocal, RouteRemote, Forward, NodeCrash
<1> QED BY <1>1, <1>2, <1>3, <1>4, <1>5, <1>6, <1>7, <1>8

\* No route is taken from its session: a key changes hands only by becoming free,
\* and it becomes free only at the end of its lease, by its own session's close or
\* teardown, or after that session is gone.
THEOREM DropsOnlyByOwner == Spec => RouteDropsOnlyByOwner
<1>1. ASSUME IndInv, Next
      PROVE  DropsAreJustified
  <2> SUFFICES ASSUME NEW k \in Keys, owner[k] \in Sessions, owner'[k] # owner[k]
               PROVE  /\ owner'[k] = NoSession
                      /\ \/ ttl[k] = 1
                         \/ ~Registered(owner[k])
                         \/ reader[owner[k]] = "release" /\ tunnelKey[inHand[owner[k]]] = k
                         \/ /\ reader[owner[k]] = "teardown"
                            /\ \E t \in toRelease[owner[k]] : tunnelKey[t] = k
    BY DEF DropsAreJustified
  <2>1. CASE \E j \in Keys, s \in Sessions : Acquired(j, s)
    BY <1>1, <2>1, NullAssumption DEF Acquired, IndInv, TypeOK, TableTypeOK
  <2>2. CASE \E j \in Keys : Freed(j)
    BY <1>1, <2>2 DEF Freed, IndInv, TypeOK, TableTypeOK
  <2>3. CASE Lapsed
    BY <2>3 DEF Lapsed
  <2> QED BY <1>1, <2>1, <2>2, <2>3, OwnerSteps
<1>2. IndInv /\ UNCHANGED vars => DropsAreJustified
  BY DEF DropsAreJustified, vars, table
<1> QED BY <1>1, <1>2, Invariance, PTL DEF Spec, RouteDropsOnlyByOwner

-----------------------------------------------------------------------------
(* The table implements exclusive ownership. *)

\* A session that is gone stays gone.
LEMMA GoneStays ==
    ASSUME IndInv, Next, NEW s \in Sessions, phase[s] = "gone"
    PROVE  phase'[s] = "gone"
<1>1. CASE UNCHANGED phase
  BY <1>1
<1>2. CASE \E r \in Sessions : Handshake(r) \/ ConnectionLost(r) \/ Disconnect(r) \/ TeardownDone(r)
  BY <1>2 DEF Handshake, ConnectionLost, Disconnect, TeardownDone, IndInv, TypeOK
<1>3. CASE \E n \in Nodes : NodeCrash(n)
  BY <1>3 DEF NodeCrash
<1>4. \/ \E r \in Sessions : Handshake(r) \/ ConnectionLost(r) \/ Disconnect(r) \/ TeardownDone(r)
      \/ \E n \in Nodes : NodeCrash(n)
      \/ UNCHANGED phase
  BY NextCases, Zenon DEF RegisterTunnel, CallClaim, TunnelRegistered, CloseTunnel,
     TunnelClosed, TeardownRelease, BeatStart, BeatRenew, BeatRefused, BeatAborted, Arrive,
     Lookup, RouteLocal, RouteRemote, Forward, Cleanup, Tick, sessionVars
<1> QED BY <1>1, <1>2, <1>3, <1>4

\* Claims, releases, leases, teardown and crashes implement RouteOwnership: keys are
\* acquired only when free and only by live sessions.
THEOREM OwnershipRefined == Spec => ImplementsOwnership
<1> DEFINE gone == {s \in Sessions : phase[s] = "gone"}
<1>1. Init => Ownership!OwnershipInit
  BY DEF Init, TableInit, Ownership!OwnershipInit
<1>2. ASSUME IndInv, Next
      PROVE  Ownership!OwnershipNext \/ UNCHANGED Ownership!ownershipVars
  <2>1. CASE owner' = owner
    <3>1. gone' = gone \cup gone' /\ gone' \in SUBSET Sessions
      BY <1>2, GoneStays
    <3> PICK G \in SUBSET Sessions : G = gone'
      BY <3>1
    <3>2. Ownership!End(G)
      BY <2>1, <3>1 DEF Ownership!End
    <3> QED BY <3>2 DEF Ownership!OwnershipNext
  <2>2. CASE \E k \in Keys, s \in Sessions : Acquired(k, s)
    BY <2>2 DEF Acquired, Reading, Ownership!Acquire, Ownership!OwnershipNext
  <2>3. CASE \E k \in Keys : Freed(k)
    <3> PICK k \in Keys : Freed(k)
      BY <2>3
    <3>1. Ownership!Free({k})
      BY <1>2 DEF Freed, Ownership!Free, IndInv, TypeOK, TableTypeOK
    <3> QED BY <3>1 DEF Ownership!OwnershipNext
  <2>4. CASE Lapsed
    <3> DEFINE K == {k \in Keys : owner[k] # NoSession /\ ttl[k] = 1}
    <3>1. Ownership!Free(K)
      BY <2>4 DEF Lapsed, Ownership!Free
    <3> QED BY <3>1 DEF Ownership!OwnershipNext
  <2> QED BY <1>2, <2>1, <2>2, <2>3, <2>4, OwnerSteps
<1>3. UNCHANGED vars => UNCHANGED Ownership!ownershipVars
  BY DEF vars, table, sessionVars, Ownership!ownershipVars
<1> QED BY <1>1, <1>2, <1>3, Invariance, PTL
        DEF Spec, ImplementsOwnership, Ownership!OwnershipSpec

-----------------------------------------------------------------------------
(* The limit on tunnels. *)

\* While a claim is on its way, its session has room for one more tunnel.
LimitInv ==
    MaxTunnels > 0 => \A s \in Sessions :
        /\ Cardinality(tunnels[s]) <= MaxTunnels
        /\ reader[s] \in {"claim", "acquired"} => Cardinality(tunnels[s]) < MaxTunnels

\* Sets of tunnels are finite, and a subset is not larger.
LEMMA TunnelCount ==
    ASSUME NEW S \in SUBSET Tunnels, NEW R \in SUBSET S
    PROVE  /\ Cardinality(S) \in Nat /\ Cardinality(R) \in Nat
           /\ Cardinality(R) <= Cardinality(S)
BY TunnelsAssumption, FS_Subset, FS_CardinalityType

\* One more tunnel counts at most one more.
LEMMA TunnelAdded ==
    ASSUME NEW S \in SUBSET Tunnels, NEW t \in Tunnels
    PROVE  Cardinality(S \cup {t}) <= Cardinality(S) + 1
BY TunnelsAssumption, FS_Subset, FS_AddElement, FS_CardinalityType

\* The limit holds in every state: the test before the claim and the insertion after
\* it are not separated by another insertion, and the heartbeat only removes.
THEOREM LimitHolds == Spec => []TunnelLimit
<1>1. Init => LimitInv
  BY LimitAssumption, FS_EmptySet DEF Init, LimitInv
<1>2. ASSUME IndInv, LimitInv, Next
      PROVE  LimitInv'
  <2> SUFFICES ASSUME MaxTunnels > 0, NEW s \in Sessions
               PROVE  /\ Cardinality(tunnels'[s]) <= MaxTunnels
                      /\ reader'[s] \in {"claim", "acquired"} => Cardinality(tunnels'[s]) < MaxTunnels
    BY DEF LimitInv
  <2> USE DEF IndInv, TypeOK, sessionVars, readerVars
  <2>0. /\ Cardinality(tunnels[s]) <= MaxTunnels /\ Cardinality(tunnels[s]) \in Nat
        /\ reader[s] \in {"claim", "acquired"} => Cardinality(tunnels[s]) < MaxTunnels
    BY <1>2, TunnelCount DEF LimitInv
  <2>1. CASE \E r \in Sessions, k \in Keys, t \in Tunnels : RegisterTunnel(r, k, t)
    BY <1>2, <2>0, <2>1 DEF RegisterTunnel
  <2>2. CASE \E r \in Sessions : TunnelRegistered(r)
    <3> PICK r \in Sessions : TunnelRegistered(r)
      BY <2>2
    <3>1. CASE r = s
      <4>1. inHand[s] \in Tunnels /\ tunnels'[s] = tunnels[s] \cup {inHand[s]}
        BY <1>2, <3>1 DEF TunnelRegistered, HandsOK
      <4>2. Cardinality(tunnels'[s]) <= Cardinality(tunnels[s]) + 1 /\ Cardinality(tunnels'[s]) \in Nat
        BY <1>2, <4>1, TunnelAdded, TunnelCount
      <4>3. reader'[s] = "idle" /\ reader[s] = "acquired"
        BY <1>2, <3>1 DEF TunnelRegistered
      <4> QED BY <2>0, <4>2, <4>3, LimitAssumption
    <3>2. CASE r # s
      BY <1>2, <2>0, <3>2 DEF TunnelRegistered
    <3> QED BY <3>1, <3>2
  <2>3. CASE /\ tunnels'[s] \in SUBSET tunnels[s]
             /\ reader'[s] \in {"claim", "acquired"} => reader[s] \in {"claim", "acquired"}
    BY <1>2, <2>0, <2>3, TunnelCount, LimitAssumption
  <2>4. \/ \E r \in Sessions, k \in Keys, t \in Tunnels : RegisterTunnel(r, k, t)
        \/ \E r \in Sessions : TunnelRegistered(r)
        \/ /\ tunnels'[s] \in SUBSET tunnels[s]
           /\ reader'[s] \in {"claim", "acquired"} => reader[s] \in {"claim", "acquired"}
    <3> DEFINE Shrinks == /\ tunnels'[s] \in SUBSET tunnels[s]
                          /\ reader'[s] \in {"claim", "acquired"} => reader[s] \in {"claim", "acquired"}
    <3>1. ASSUME NEW r \in Sessions,
                 \/ Handshake(r) \/ ConnectionLost(r) \/ CallClaim(r) \/ TunnelClosed(r)
                 \/ Disconnect(r) \/ TeardownDone(r)
                 \/ \E t \in Tunnels : CloseTunnel(r, t) \/ TeardownRelease(r, t)
          PROVE  Shrinks
      <4>1. CASE CallClaim(r) \/ TunnelClosed(r) \/ \E t \in Tunnels : TeardownRelease(r, t)
        <5>1. /\ tunnels' = tunnels
              /\ \A u \in Sessions \ {r} : reader'[u] = reader[u]
              /\ reader'[r] \in {"claim", "acquired"} => reader[r] \in {"claim", "acquired"}
          BY <1>2, <4>1 DEF CallClaim, TunnelClosed, TeardownRelease
        <5> QED BY <5>1
      <4>2. CASE Handshake(r) \/ ConnectionLost(r) \/ Disconnect(r) \/ TeardownDone(r)
        BY <1>2, <4>2 DEF Handshake, ConnectionLost, Disconnect, TeardownDone
      <4>3. CASE \E t \in Tunnels : CloseTunnel(r, t)
        BY <1>2, <4>3 DEF CloseTunnel
      <4> QED BY <3>1, <4>1, <4>2, <4>3
    <3>2. ASSUME NEW r \in Sessions,
                 \/ BeatStart(r) \/ BeatRefused(r) \/ BeatAborted(r)
                 \/ \E t \in Tunnels : BeatRenew(r, t)
          PROVE  Shrinks
      <4>1. CASE BeatRefused(r)
        BY <1>2, <4>1 DEF BeatRefused
      <4>2. CASE BeatStart(r) \/ BeatAborted(r) \/ \E t \in Tunnels : BeatRenew(r, t)
        <5>1. UNCHANGED <<tunnels, reader>>
          BY <4>2 DEF BeatStart, BeatAborted, BeatRenew
        <5> QED BY <5>1
      <4> QED BY <3>2, <4>1, <4>2
    <3>3. ASSUME NEW q \in Requests,
                 \/ Lookup(q) \/ RouteLocal(q) \/ RouteRemote(q) \/ Cleanup(q)
                 \/ \E n \in Nodes, k \in Keys : Arrive(q, n, k)
          PROVE  Shrinks
      BY <1>2, <3>3 DEF Arrive, Lookup, RouteLocal, RouteRemote, Forward, Cleanup
    <3>4. ASSUME Tick \/ \E n \in Nodes : NodeCrash(n)
          PROVE  Shrinks
      BY <1>2, <3>4 DEF Tick, NodeCrash
    <3> HIDE DEF Shrinks
    <3>5. \/ Shrinks
          \/ \E r \in Sessions, k \in Keys, t \in Tunnels : RegisterTunnel(r, k, t)
          \/ \E r \in Sessions : TunnelRegistered(r)
      BY <1>2, <3>1, <3>2, <3>3, <3>4, NextCases, Zenon
    <3> QED BY <3>5 DEF Shrinks
  <2> QED BY <2>1, <2>2, <2>3, <2>4
<1>3. LimitInv /\ UNCHANGED vars => LimitInv'
  BY DEF LimitInv, vars, sessionVars, readerVars
<1>4. LimitInv => TunnelLimit
  BY DEF LimitInv, TunnelLimit
<1> QED BY <1>1, <1>2, <1>3, <1>4, Invariance, PTL DEF Spec
=============================================================================
