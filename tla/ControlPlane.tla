---------------------------- MODULE ControlPlane ----------------------------
(***************************************************************************)
(* Agent sessions on the edge nodes, and the requests routed to them.      *)
(*                                                                         *)
(* Every session has two tasks on its node: the read loop (run_session,    *)
(* crates/norupo-server/src/control.rs), which registers and closes        *)
(* tunnels and tears the session down, and the heartbeat (spawn_heartbeat) *)
(* which renews the session's routes.  Public requests run the ingress     *)
(* handler (crates/norupo-server/src/ingress.rs, handle).  All of them     *)
(* share the routing table, and a call to it may fail before or after it   *)
(* took effect.  The nodes may crash at any step and come back empty.      *)
(***************************************************************************)
EXTENDS Registry, FiniteSets

CONSTANTS
    Nodes,       \* node_id of every edge node
    Home,        \* Home[s]: the node whose listener accepted session s
    Requests,    \* public requests
    NoKey,       \* key of a tunnel id not handed out yet, of an idle request
    MaxTunnels,  \* principal.limits.max_tunnels; 0 is unlimited
    MaxErrors,   \* bound: registry calls that fail
    MaxCrashes,  \* bound: node crashes
    SharedKeys,  \* may an agent register a key its session already serves?
    Punctual     \* do due heartbeats and calls finish within an interval?

ASSUME NodesAssumption == Home \in [Sessions -> Nodes]
ASSUME KeyAssumption == NoKey \notin Keys
ASSUME LimitAssumption == MaxTunnels \in Nat /\ MaxErrors \in Nat /\ MaxCrashes \in Nat
ASSUME FlagAssumption == SharedKeys \in BOOLEAN /\ Punctual \in BOOLEAN
ASSUME TunnelsAssumption == IsFiniteSet(Tunnels)

VARIABLES
    phase,     \* life of a session, see Phases
    tunnelKey, \* routing key of each tunnel id handed out
    tunnels,   \* Session.tunnels: the tunnel ids a session lists
    reader,    \* what the session's read loop is doing, see ReaderSteps
    inHand,    \* the tunnel the read loop is claiming or releasing
    toRelease, \* tunnels teardown still has to release
    beat,      \* what the session's heartbeat task is doing, see BeatSteps
    toRenew,   \* tunnels of the heartbeat's snapshot still to renew
    refused,   \* the tunnel whose refused renewal is not handled yet
    request,   \* each request: where it is and what it found
    errors,    \* registry calls that failed so far
    crashes,   \* node crashes so far
    tainted    \* sessions that saw a failed claim or release, or a crash

sessionVars == <<phase, tunnelKey, tunnels>>
readerVars  == <<reader, inHand, toRelease>>
beatVars    == <<beat, toRenew, refused>>
faultVars   == <<errors, crashes, tainted>>
vars == <<table, sessionVars, readerVars, beatVars, request, faultVars>>

\* "open" and "cut" sessions are served by their read loop; a cut one has lost
\* its connection and its read loop has not noticed.  Up to and including
\* "closing" the session is in its node's SessionManager.
Phases == {"new", "open", "cut", "closing", "gone"}
ReaderSteps == {"idle", "claim", "acquired", "release", "teardown", "ended"}
\* "refused": a renewal was answered false and the answer is not handled yet.
BeatSteps == {"sleep", "due", "renew", "refused", "stopped"}
Answers == {"served", "404", "502", "508"}
RequestSteps == {"idle", "lookup", "route", "cleanup"} \cup Answers
\* hops counts the HOP_HEADER marks, found is the session of the record found.
RequestStates == [step : RequestSteps, key : Keys \cup {NoKey}, at : Nodes,
                  hops : Nat, found : Sessions \cup {NoSession}]

Registered(s) == phase[s] \in {"open", "cut", "closing"}
Reading(s) == phase[s] \in {"open", "cut"}

TypeOK ==
    /\ TableTypeOK
    /\ phase \in [Sessions -> Phases]
    /\ tunnelKey \in [Tunnels -> Keys \cup {NoKey}]
    /\ tunnels \in [Sessions -> SUBSET Tunnels]
    /\ reader \in [Sessions -> ReaderSteps]
    /\ inHand \in [Sessions -> Tunnels \cup {NoTunnel}]
    /\ toRelease \in [Sessions -> SUBSET Tunnels]
    /\ beat \in [Sessions -> BeatSteps]
    /\ toRenew \in [Sessions -> SUBSET Tunnels]
    /\ refused \in [Sessions -> Tunnels \cup {NoTunnel}]
    /\ request \in [Requests -> RequestStates]
    /\ errors \in 0 .. MaxErrors
    /\ crashes \in 0 .. MaxCrashes
    /\ tainted \in SUBSET Sessions

Init ==
    /\ TableInit
    /\ phase = [s \in Sessions |-> "new"]
    /\ tunnelKey = [t \in Tunnels |-> NoKey]
    /\ tunnels = [s \in Sessions |-> {}]
    /\ reader = [s \in Sessions |-> "ended"]
    /\ inHand = [s \in Sessions |-> NoTunnel]
    /\ toRelease = [s \in Sessions |-> {}]
    /\ beat = [s \in Sessions |-> "stopped"]
    /\ toRenew = [s \in Sessions |-> {}]
    /\ refused = [s \in Sessions |-> NoTunnel]
    /\ request \in [Requests -> [step : {"idle"}, key : {NoKey}, at : Nodes,
                                 hops : {0}, found : {NoSession}]]
    /\ errors = 0
    /\ crashes = 0
    /\ tainted = {}

-----------------------------------------------------------------------------
(* Calls to the registry. *)

\* A call may fail with RegistryUnavailable, before it reached the table or
\* after it took effect there.
Outcomes == {"ok", "not applied", "reply lost"}

\* The call's effect on the fault counters.
Outcome(o) ==
    /\ o # "ok" => errors < MaxErrors
    /\ errors' = IF o = "ok" THEN errors ELSE errors + 1

\* A failed claim or release leaves the table and the session out of step.
Taints(o, s) == tainted' = IF o = "ok" THEN tainted ELSE tainted \cup {s}

-----------------------------------------------------------------------------
(* The control connection. *)

\* session(): Hello, version check and authentication succeeded, the Welcome is
\* queued, the session is inserted and its two tasks are spawned.  The failing
\* paths return a Status and touch no state.
Handshake(s) ==
    /\ phase[s] = "new"
    /\ phase' = [phase EXCEPT ![s] = "open"]
    /\ reader' = [reader EXCEPT ![s] = "idle"]
    /\ beat' = [beat EXCEPT ![s] = "sleep"]
    /\ UNCHANGED <<table, tunnelKey, tunnels, inHand, toRelease, toRenew,
                   refused, request, faultVars>>

\* External: the agent hangs up or its connection breaks.
ConnectionLost(s) ==
    /\ phase[s] = "open"
    /\ phase' = [phase EXCEPT ![s] = "cut"]
    /\ UNCHANGED <<table, tunnelKey, tunnels, readerVars, beatVars, request,
                   faultVars>>

-----------------------------------------------------------------------------
(* The read loop. *)

\* mutant: an off-by-one in the limit
RegisterTunnel_OneMore(s, k, t) ==
    /\ Reading(s) /\ reader[s] = "idle"
    /\ MaxTunnels = 0 \/ Cardinality(tunnels[s]) <= MaxTunnels
    /\ SharedKeys \/ \A u \in tunnels[s] : tunnelKey[u] # k
    /\ tunnelKey[t] = NoKey
    /\ tunnelKey' = [tunnelKey EXCEPT ![t] = k]
    /\ reader' = [reader EXCEPT ![s] = "claim"]
    /\ inHand' = [inHand EXCEPT ![s] = t]
    /\ UNCHANGED <<table, phase, tunnels, toRelease, beatVars, request,
                   faultVars>>

\* register_tunnel, up to the call of registry.claim: the limit, the key and a
\* fresh tunnel id.  A rejected registration changes nothing.
RegisterTunnel(s, k, t) ==
    /\ Reading(s) /\ reader[s] = "idle"
    /\ MaxTunnels = 0 \/ Cardinality(tunnels[s]) < MaxTunnels
    /\ SharedKeys \/ \A u \in tunnels[s] : tunnelKey[u] # k
    /\ tunnelKey[t] = NoKey
    /\ tunnelKey' = [tunnelKey EXCEPT ![t] = k]
    /\ reader' = [reader EXCEPT ![s] = "claim"]
    /\ inHand' = [inHand EXCEPT ![s] = t]
    /\ UNCHANGED <<table, phase, tunnels, toRelease, beatVars, request,
                   faultVars>>

\* registry.claim.  Claim::Taken and Err reject the registration.
CallClaim(s) ==
    /\ reader[s] = "claim"
    /\ \E o \in Outcomes :
          LET k == tunnelKey[inHand[s]]
              granted == o = "ok" /\ Claimable(k, s)
          IN  /\ Outcome(o) /\ Taints(o, s)
              /\ IF o = "not applied" THEN UNCHANGED table
                                      ELSE Claim(k, s, inHand[s])
              /\ reader' = [reader EXCEPT ![s] = IF granted THEN "acquired" ELSE "idle"]
              /\ inHand' = [inHand EXCEPT ![s] = IF granted THEN @ ELSE NoTunnel]
    /\ UNCHANGED <<sessionVars, toRelease, beatVars, request, crashes>>

\* The claim's answer is read: insert_tunnel, and the accepting TunnelStatus.
TunnelRegistered(s) ==
    /\ reader[s] = "acquired"
    /\ tunnels' = [tunnels EXCEPT ![s] = @ \cup {inHand[s]}]
    /\ reader' = [reader EXCEPT ![s] = "idle"]
    /\ inHand' = [inHand EXCEPT ![s] = NoTunnel]
    /\ UNCHANGED <<table, phase, tunnelKey, toRelease, beatVars, request,
                   faultVars>>

\* CloseTunnel, up to the call of registry.release.
CloseTunnel(s, t) ==
    /\ Reading(s) /\ reader[s] = "idle"
    /\ t \in tunnels[s]
    /\ tunnels' = [tunnels EXCEPT ![s] = @ \ {t}]
    /\ reader' = [reader EXCEPT ![s] = "release"]
    /\ inHand' = [inHand EXCEPT ![s] = t]
    /\ UNCHANGED <<table, phase, tunnelKey, toRelease, beatVars, request,
                   faultVars>>

\* registry.release for tunnel t of s, with the given outcome.
CallRelease(s, t, o) ==
    /\ Outcome(o) /\ Taints(o, s)
    /\ IF o = "not applied" THEN UNCHANGED table ELSE Release(tunnelKey[t], s)

\* The release that ends CloseTunnel; its result is ignored.
TunnelClosed(s) ==
    /\ reader[s] = "release"
    /\ \E o \in Outcomes : CallRelease(s, inHand[s], o)
    /\ reader' = [reader EXCEPT ![s] = "idle"]
    /\ inHand' = [inHand EXCEPT ![s] = NoTunnel]
    /\ UNCHANGED <<sessionVars, toRelease, beatVars, request, crashes>>

\* The read loop sees the end of the stream: the heartbeat is aborted (at once
\* if it sleeps, else at its next await) and teardown takes its snapshot.
Disconnect(s) ==
    /\ phase[s] = "cut" /\ reader[s] = "idle"
    /\ phase' = [phase EXCEPT ![s] = "closing"]
    /\ reader' = [reader EXCEPT ![s] = "teardown"]
    /\ toRelease' = [toRelease EXCEPT ![s] = tunnels[s]]
    /\ beat' = [beat EXCEPT ![s] = IF @ \in {"sleep", "due"} THEN "stopped" ELSE @]
    /\ UNCHANGED <<table, tunnelKey, tunnels, inHand, toRenew, refused,
                   request, faultVars>>

\* teardown: one release; an error is logged and the loop goes on.
TeardownRelease(s, t) ==
    /\ reader[s] = "teardown"
    /\ t \in toRelease[s]
    /\ \E o \in Outcomes : CallRelease(s, t, o)
    /\ toRelease' = [toRelease EXCEPT ![s] = @ \ {t}]
    /\ UNCHANGED <<sessionVars, reader, inHand, beatVars, request, crashes>>

\* mutant: the session is removed before its routes are released
TeardownDone_Early(s) ==
    /\ reader[s] = "teardown"
    /\ phase' = [phase EXCEPT ![s] = "gone"]
    /\ reader' = [reader EXCEPT ![s] = "ended"]
    /\ UNCHANGED <<table, tunnelKey, tunnels, inHand, toRelease, beatVars,
                   request, faultVars>>

\* teardown: every release was tried; streams are closed, the session removed.
TeardownDone(s) ==
    /\ reader[s] = "teardown"
    /\ toRelease[s] = {}
    /\ phase' = [phase EXCEPT ![s] = "gone"]
    /\ reader' = [reader EXCEPT ![s] = "ended"]
    /\ UNCHANGED <<table, tunnelKey, tunnels, inHand, toRelease, beatVars,
                   request, faultVars>>

-----------------------------------------------------------------------------
(* The heartbeat task. *)

\* mutant: run_session without heartbeat.abort()
Aborted_Never(s) == s \notin Sessions

\* An aborted task runs on to its next await and no further.
Aborted(s) == ~Reading(s)

\* Where the renewal loop goes with the tunnels in S left to renew.
NextBeat(s, S) == CASE Aborted(s) -> "stopped"
                    [] ~Aborted(s) /\ S = {} -> "sleep"
                    [] OTHER -> "renew"

\* The interval elapsed: Ping is sent and the tunnels are snapshotted.  The send
\* fails once the outbound stream is dropped, and the task returns.
BeatStart(s) ==
    /\ beat[s] = "due"
    /\ \/ /\ toRenew' = [toRenew EXCEPT ![s] = tunnels[s]]
          /\ beat' = [beat EXCEPT ![s] = NextBeat(s, tunnels[s])]
       \/ /\ phase[s] = "cut"
          /\ beat' = [beat EXCEPT ![s] = "stopped"]
          /\ UNCHANGED toRenew
    /\ UNCHANGED <<table, sessionVars, readerVars, refused, request,
                   faultVars>>

\* registry.renew for the next tunnel of the snapshot.  Err keeps the tunnel.
BeatRenew(s, t) ==
    /\ beat[s] = "renew"
    /\ t \in toRenew[s]
    /\ toRenew' = [toRenew EXCEPT ![s] = @ \ {t}]
    /\ \E o \in Outcomes :
          LET k == tunnelKey[t]
              no == o = "ok" /\ ~Renewable(k, s) /\ ~Aborted(s)
          IN  /\ Outcome(o)
              /\ IF o = "not applied" THEN UNCHANGED table ELSE Renew(k, s)
              /\ beat' = [beat EXCEPT ![s] = IF no THEN "refused"
                                             ELSE NextBeat(s, toRenew[s] \ {t})]
              /\ refused' = [refused EXCEPT ![s] = IF no THEN t ELSE NoTunnel]
    /\ UNCHANGED <<sessionVars, readerVars, request, crashes, tainted>>

\* The claim is lost: the tunnel is dropped and the agent told.
BeatRefused(s) ==
    /\ beat[s] = "refused"
    /\ tunnels' = [tunnels EXCEPT ![s] = @ \ {refused[s]}]
    /\ refused' = [refused EXCEPT ![s] = NoTunnel]
    /\ beat' = [beat EXCEPT ![s] = IF toRenew[s] = {} THEN NextBeat(s, {}) ELSE "renew"]
    /\ UNCHANGED <<table, phase, tunnelKey, readerVars, toRenew, request,
                   faultVars>>

\* The abort takes effect.
BeatAborted(s) ==
    /\ Aborted(s) /\ beat[s] # "stopped"
    /\ beat' = [beat EXCEPT ![s] = "stopped"]
    /\ toRenew' = [toRenew EXCEPT ![s] = {}]
    /\ refused' = [refused EXCEPT ![s] = NoTunnel]
    /\ UNCHANGED <<table, sessionVars, readerVars, request, faultVars>>

-----------------------------------------------------------------------------
(* The ingress handler. *)

\* A request for host k reaches the public listener of node n.
Arrive(q, n, k) ==
    /\ request[q].step = "idle"
    /\ request' = [request EXCEPT ![q] = [step |-> "lookup", key |-> k, at |-> n,
                                          hops |-> 0, found |-> NoSession]]
    /\ UNCHANGED <<table, sessionVars, readerVars, beatVars, faultVars>>

\* registry.lookup: a miss is a 404, an error a 502.
Lookup(q) ==
    /\ request[q].step = "lookup"
    /\ \E o \in Outcomes \ {"not applied"} :
          LET s == owner[request[q].key]
          IN  /\ Outcome(o)
              /\ request' = [request EXCEPT
                    ![q].step = CASE o # "ok" -> "502"
                                  [] o = "ok" /\ s = NoSession -> "404"
                                  [] OTHER -> "route",
                    ![q].found = IF o = "ok" THEN s ELSE NoSession]
    /\ UNCHANGED <<table, sessionVars, readerVars, beatVars, crashes, tainted>>

\* The record names this node: hand the request to the session if it is still
\* registered, else go and clean the record up.
RouteLocal(q) ==
    /\ request[q].step = "route"
    /\ Home[request[q].found] = request[q].at
    /\ request' = [request EXCEPT
          ![q].step = IF Registered(request[q].found) THEN "served" ELSE "cleanup"]
    /\ UNCHANGED <<table, sessionVars, readerVars, beatVars, faultVars>>

\* mutant: the hop mark is not tested
RouteRemote_AnyHop(q) ==
    /\ request[q].step = "route"
    /\ Home[request[q].found] # request[q].at
    /\ request' = [request EXCEPT ![q] =
          [step |-> "lookup", key |-> @.key, at |-> Home[@.found],
           hops |-> @.hops + 1, found |-> NoSession]]
    /\ UNCHANGED <<table, sessionVars, readerVars, beatVars, faultVars>>

\* mutant: an off-by-one in the hop test
RouteRemote_NoHop(q) ==
    /\ request[q].step = "route"
    /\ Home[request[q].found] # request[q].at
    /\ request' = [request EXCEPT ![q].step = "508"]
    /\ UNCHANGED <<table, sessionVars, readerVars, beatVars, faultVars>>

\* PeerClient::forward: the sibling looks the key up again under a hop mark, or is
\* out of reach.
Forward(q) ==
    \/ request' = [request EXCEPT ![q].step = "502"]
    \/ request' = [request EXCEPT ![q] =
          [step |-> "lookup", key |-> @.key, at |-> Home[@.found],
           hops |-> @.hops + 1, found |-> NoSession]]

\* The record names a sibling: one hop is allowed.
RouteRemote(q) ==
    /\ request[q].step = "route"
    /\ Home[request[q].found] # request[q].at
    /\ IF request[q].hops > 0
       THEN request' = [request EXCEPT ![q].step = "508"]
       ELSE Forward(q)
    /\ UNCHANGED <<table, sessionVars, readerVars, beatVars, faultVars>>

\* The stale record is released in the name of the session it was found with;
\* the outcome is ignored.
Cleanup(q) ==
    /\ request[q].step = "cleanup"
    /\ \E o \in Outcomes :
          /\ Outcome(o)
          /\ IF o = "not applied" THEN UNCHANGED table
                                  ELSE Release(request[q].key, request[q].found)
    /\ request' = [request EXCEPT ![q].step = "404"]
    /\ UNCHANGED <<sessionVars, readerVars, beatVars, crashes, tainted>>

-----------------------------------------------------------------------------
(* The environment. *)

\* Sessions and requests of node n vanish; the node restarts under its old id.
\* A request in flight there ends in a broken connection, or in a 502 from the
\* sibling that handed it over.
NodeCrash(n) ==
    /\ crashes < MaxCrashes
    /\ crashes' = crashes + 1
    /\ LET dead == {s \in Sessions : Home[s] = n /\ phase[s] # "new"}
       IN  /\ phase' = [s \in Sessions |-> IF s \in dead THEN "gone" ELSE phase[s]]
           /\ reader' = [s \in Sessions |-> IF s \in dead THEN "ended" ELSE reader[s]]
           /\ beat' = [s \in Sessions |-> IF s \in dead THEN "stopped" ELSE beat[s]]
           /\ tunnels' = [s \in Sessions |-> IF s \in dead THEN {} ELSE tunnels[s]]
           /\ toRelease' = [s \in Sessions |-> IF s \in dead THEN {} ELSE toRelease[s]]
           /\ toRenew' = [s \in Sessions |-> IF s \in dead THEN {} ELSE toRenew[s]]
           /\ inHand' = [s \in Sessions |-> IF s \in dead THEN NoTunnel ELSE inHand[s]]
           /\ refused' = [s \in Sessions |-> IF s \in dead THEN NoTunnel ELSE refused[s]]
           /\ tainted' = tainted \cup {s \in dead : Registered(s)}
    /\ request' = [q \in Requests |->
          IF request[q].at = n /\ request[q].step \in {"lookup", "route", "cleanup"}
          THEN [request[q] EXCEPT !.step = "502"] ELSE request[q]]
    /\ UNCHANGED <<table, tunnelKey, errors>>

\* Every due heartbeat has run and every granted claim was read.
Settled == \A s \in Sessions : beat[s] \in {"sleep", "stopped"} /\ reader[s] # "acquired"

\* One heartbeat interval passes.
Tick ==
    /\ Punctual => Settled
    /\ TableTick
    /\ beat' = [s \in Sessions |-> IF beat[s] = "sleep" THEN "due" ELSE beat[s]]
    /\ UNCHANGED <<sessionVars, readerVars, toRenew, refused, request,
                   faultVars>>

-----------------------------------------------------------------------------
ReadLoop(s) ==
    \/ \E k \in Keys, t \in Tunnels : RegisterTunnel(s, k, t)
    \/ CallClaim(s)
    \/ TunnelRegistered(s)
    \/ \E t \in Tunnels : CloseTunnel(s, t)
    \/ TunnelClosed(s)
    \/ Disconnect(s)
    \/ \E t \in Tunnels : TeardownRelease(s, t)
    \/ TeardownDone(s)

Heartbeat(s) ==
    \/ BeatStart(s)
    \/ \E t \in Tunnels : BeatRenew(s, t)
    \/ BeatRefused(s)
    \/ BeatAborted(s)

Handle(q) ==
    \/ \E n \in Nodes, k \in Keys : Arrive(q, n, k)
    \/ Lookup(q) \/ RouteLocal(q) \/ RouteRemote(q) \/ Cleanup(q)

Next ==
    \/ \E s \in Sessions : Handshake(s) \/ ConnectionLost(s) \/ ReadLoop(s) \/ Heartbeat(s)
    \/ \E q \in Requests : Handle(q)
    \/ \E n \in Nodes : NodeCrash(n)
    \/ Tick

Spec == Init /\ [][Next]_vars

\* Tasks that can run do run, registry calls return, and time passes.  What
\* agents, public clients and failures do is not owed.
ReadLoopRuns(s) ==
    \/ CallClaim(s) \/ TunnelRegistered(s) \/ TunnelClosed(s) \/ Disconnect(s)
    \/ TeardownDone(s) \/ \E t \in Tunnels : TeardownRelease(s, t)

HandlerRuns(q) == Lookup(q) \/ RouteLocal(q) \/ RouteRemote(q) \/ Cleanup(q)

Fairness ==
    /\ \A s \in Sessions : WF_vars(ReadLoopRuns(s)) /\ WF_vars(Heartbeat(s))
    /\ \A q \in Requests : WF_vars(HandlerRuns(q))
    /\ WF_vars(Tick)

FairSpec == Spec /\ Fairness

-----------------------------------------------------------------------------
(* Properties. *)

\* No session ever lists more tunnels than its principal's limit, although the
\* limit is tested before the claim is awaited and the heartbeat changes the
\* list meanwhile (register_tunnel).
TunnelLimit ==
    MaxTunnels > 0 => \A s \in Sessions : Cardinality(tunnels[s]) <= MaxTunnels

\* The tunnels for which session s may still hold a route.
Answerable(s) ==
    CASE reader[s] = "teardown" -> toRelease[s]
      [] reader[s] \in {"claim", "acquired", "release"} -> tunnels[s] \cup {inHand[s]}
      [] OTHER -> tunnels[s]

\* A record whose session met no failed call and no crash names a session that is
\* registered on its node and a tunnel that session lists, is inserting or is
\* about to release: no interleaving of registration, CloseTunnel, teardown and
\* the heartbeat leaves a route nobody will renew or release.
RouteNamesLiveTunnel ==
    \A k \in Keys : owner[k] \in Sessions \ tainted =>
        Registered(owner[k]) /\ routeTunnel[k] \in Answerable(owner[k])

\* A key changes hands only by becoming free, and it becomes free only when its
\* time is up, when its own session is closing that tunnel or tearing down, or
\* when that session is no longer registered (the ingress clean-up): no late
\* release of an older session or of a stale lookup takes a route away.
DropsAreJustified ==
    \A k \in Keys : owner[k] \in Sessions /\ owner'[k] # owner[k] =>
        LET s == owner[k] IN
        /\ owner'[k] = NoSession
        /\ \/ ttl[k] = 1
           \/ ~Registered(s)
           \/ reader[s] = "release" /\ tunnelKey[inHand[s]] = k
           \/ reader[s] = "teardown" /\ \E t \in toRelease[s] : tunnelKey[t] = k
RouteDropsOnlyByOwner == [][DropsAreJustified]_vars

\* While heartbeats are punctual and fewer calls fail than Ttl - 1, an open
\* session's route never lapses: one slow or failing registry call does not
\* evict a healthy tunnel (route_ttl).
RouteSurvives ==
    Punctual /\ ~SharedKeys /\ MaxErrors + 2 <= Ttl =>
        \A s \in Sessions : phase[s] = "open" =>
            \A t \in tunnels[s] : owner[tunnelKey[t]] = s

\* A request is handed from node to node at most once (HOP_HEADER).
OneHop == \A q \in Requests : request[q].hops <= 1

\* A request for a key that one registered session keeps is handed to that
\* session or fails in a 502; it ends neither in a 404 nor in a 508.
RoutedRequestServed ==
    \A q \in Requests, k \in Keys, s \in Sessions :
        (/\ request[q].step = "lookup" /\ request[q].key = k /\ request[q].hops = 0
         /\ owner[k] = s /\ Registered(s))
        ~> \/ owner[k] # s \/ ~Registered(s)
           \/ request[q].step = "502"
           \/ request[q].step = "served" /\ request[q].found = s

\* A session that lists a tunnel whose key it no longer owns does not go on
\* believing so: its next heartbeats drop the tunnel.
StaleBeliefResolved ==
    \A s \in Sessions, t \in Tunnels :
        (Reading(s) /\ t \in tunnels[s] /\ owner[tunnelKey[t]] # s)
        ~> (~Reading(s) \/ t \notin tunnels[s] \/ owner[tunnelKey[t]] = s)

\* The routing table seen from outside: RouteOwnership with the records' sessions
\* as holders and the sessions torn down or lost in a crash as ended.
Ownership == INSTANCE RouteOwnership WITH
    holder <- owner,
    ended <- {s \in Sessions : phase[s] = "gone"}

\* The edge nodes implement exclusive ownership of routing keys: atomic claims,
\* owner-checked releases, leases and crashes only ever acquire a free key for a
\* live session, free keys and end sessions.
ImplementsOwnership == Ownership!OwnershipSpec

\* The same with the promise that what ended sessions held becomes free, whether
\* their release failed or their node died: nothing renews a dead session's route.
ImplementsFairOwnership == Ownership!OwnershipFairSpec
=============================================================================
