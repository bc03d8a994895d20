# Norupo-tunnel: a TLA+ verification project

Norupo-tunnel exposes local services to the internet. An *agent* beside the
local service keeps one bidirectional gRPC stream (a *session*) to an *edge
node*; public requests for a tunnel's host name arrive at any edge node, are
routed through a routing table the nodes share, and travel to the agent as
*streams* multiplexed on its session. This directory models the parts of the
system where order, failure and concurrency decide whether it is correct, checks
them with TLC on small instances and proves the central safety properties with
TLAPS for all instances.

`PROJECT.json` lists components, runs, mutants, findings, hazards and theorems,
and maps every definition to the source lines it stands for.

## 1. Inventory

| Component (source) | State | Operations | Talks to |
|---|---|---|---|
| Routing table (`norupo-core/src/registry.rs`) | key → record (node, session, tunnel) with a TTL | `claim`, `lookup`, `renew`, `release`, expiry | called by control plane and ingress of every node; in memory or Redis |
| Control plane session (`norupo-server/src/control.rs`, `SessionManager` in `session.rs`) | sessions, their tunnels, a read loop and a heartbeat task each | handshake, register, close, ping/renew, teardown | table; agent frames |
| Public ingress and hand-off (`ingress.rs`, `peer.rs`) | one task per request | lookup, local or remote route, stale clean-up, hop limit, upload pump, response body with guard | table; session streams; sibling nodes |
| Session streams on the edge (`session.rs`) | `streams`, `open_streams`, an outbound queue, per stream a head channel, body queue and semaphore | open, frame handlers, close, close all | ingress tasks and read loop share it |
| Agent session (`norupo-client/src/agent.rs`) | stream map, one `serve_stream` task per stream | frame handlers, local request, send payload | edge; local HTTP service |
| Flow control (`session.rs`, `agent.rs`) | semaphores, body queues, window updates | spend, buffer, grant, close | both ends of a session |
| Agent reconnect (`agent.rs` `run`, `run_session`, `norupo-client/src/config.rs`, `main.rs`) | attempt counter, stop flag | dial, call, ask for the tunnel, back off, give up, stop | edge |
| Server life cycle (`norupo-server/src/lib.rs`, `main.rs`, `state.rs`) | listeners, their tasks, shutdown watch | start, drain, wait for open sessions | all of the edge |
| Host names and subdomains (`norupo-core/src/routing.rs`), grants (`auth.rs`) | none | normalise, validate, generate, authorise | control plane, ingress |
| Tokens (`tokens.rs`), HTTP plumbing, ids, errors, wire protocol, configuration | none or constant | pure functions | — |

What is hard in it:

- two tasks of one session and any number of requests share the session's lists
  and the table, with an await between every test and the act it justifies;
- a table call may fail after it took effect; a node may die between two calls;
- leases lapse while their owner believes in them, and others take the key;
- frames of a stream arrive after a timeout, a hang-up or a reset at either end
  has forgotten it;
- credit is taken at one end, returned by the other, and lost with streams torn
  down at either; the read loops themselves wait for body queues, and for room in
  the outbound queue that only the other end's read loop can make;
- an agent comes back while its former session is not yet known to be dead, or to an
  edge that drains, was killed or was restarted;
- a name is computed in one place, tested in a second and looked up in a third;
- every parked task must be woken by somebody, whichever end goes away first.

What makes each component correct:

- *routing table*: exclusive ownership; nobody but the owner frees a key; the
  dead do not keep keys;
- *control plane*: a record always names a tunnel somebody will renew or release;
  limits hold across awaits; healthy tunnels keep their routes;
- *ingress*: a request for a kept route reaches its session, crosses nodes at most
  once, and cleans up only what is stale;
- *streams*: the counter agrees with the table; a clean end means a whole body;
  every request ends, every entry is released, every agent task ends;
- *flow control*: credit is conserved; bodies read are bodies delivered; the read
  loops get back to reading;
- *life cycle*: an agent comes back and gets its tunnel, backs off as scheduled, gives
  up when it should, stops when asked; an edge that drains stops;
- *names*: however a name is written, registration and lookup agree on its key, and no
  spelling gets around the reserved list or the grants.

## 2. Modules

| Module | Models | Extends / uses |
|---|---|---|
| `Registry` | the table as atomic operations: `MemoryRegistry` holds one mutex, `RedisRegistry` runs one Lua script per operation | — |
| `RouteOwnership` | abstract: what the table promises the cluster | — |
| `ControlPlane` | sessions on all nodes with read loop and heartbeat, and the routing half of ingress | extends `Registry`, refines `RouteOwnership` |
| `ControlPlaneProofs` | types, limit, ownership and its refinement | extends `ControlPlane` |
| `RouteProofs` | what the routing table holds: live tunnels, kept routes, one hop | extends `ControlPlaneProofs` |
| `FlowControl` | the byte window of one direction of a session, several streams sharing one read loop | — |
| `FlowControlProofs` | conservation of credit, and that no stream is stuck | extends `FlowControl` |
| `ResponsePipe` | abstract: what a tunnel promises the public client of a request | — |
| `StreamMux` | requests as streams on one session: ingress task, pump, response body and guard, edge read loop, connection, agent read loop and `serve_stream` | refines `ResponsePipe` |
| `StreamMuxProofs` | the stream counter, the completeness of bodies, the refinement of the pipe, and that responses move | extends `StreamMux` |
| `Backpressure` | the two bounded outbound queues of a session and the read loops that wait for room in them | — |
| `BackpressureProofs` | the sizing rule for these queues | extends `Backpressure` |
| `Lifecycle` | agents that dial, serve, lose their session, back off and come back, against an edge that starts, drains, is killed | — |
| `LifecycleProofs` | delays, retries, and that online means routed | extends `Lifecycle` |
| `RouteNames` | host names: normalisation, authorisation, lookup, the stored record | — |
| `RouteNamesProofs` | names of any length: who gets them and that they are found; records read back | extends `RouteNames` |
| `MCControlPlane`, `MCFlowControl`, `MCStreamMux`, `MCRouteNames` | instances for TLC: which session lives where, frame sizes, symmetries | the above |

Definitions named `X_Something` directly before a definition `X` are mutants of
`X`: plausible bugs that some run must detect (section 6). No specification uses
them.

### Registry and ControlPlane

A record is three functions of the key: `owner`, `routeTunnel`, `ttl` (in
heartbeat intervals). `Tick` is the passing of one interval; it makes sleeping
heartbeats due and expires records. An action ends where the code awaits:

- `RegisterTunnel` runs `register_tunnel` up to `registry.claim(..).await`,
  `CallClaim` is the call, `TunnelRegistered` the rest up to `insert_tunnel`;
- `CloseTunnel` / `TunnelClosed` split at `registry.release(..).await`;
- `Disconnect`, `TeardownRelease`, `TeardownDone` are `teardown`;
- `BeatStart`, `BeatRenew`, `BeatRefused` are one round of `spawn_heartbeat`.
  `heartbeat.abort()` takes effect at the task's next await, so a renewal already
  called can follow teardown's releases: `Aborted`, `BeatAborted`;
- `Lookup`, `RouteLocal`, `RouteRemote`, `Cleanup` are `handle`; a request starts
  with no hop mark (one that brings its own gets 508 for a remote route and adds
  nothing).

Every registry call has three outcomes: it succeeds, it fails without effect, or
it takes effect and its answer is lost. Losing answers and crashing nodes are
bounded by `MaxErrors` and `MaxCrashes`. Two switches describe the environment:
`SharedKeys` (may an agent register a key that its session already serves? the
code lets it) and `Punctual` (do heartbeats that are due run before the next
interval ends?).

### FlowControl

Frames and window updates on their way are counted per stream; order within a
stream does not matter for credit. What is not abstracted is the single read loop
(`loop`, `stage`), which handles one frame at a time and waits for that stream's
body queue. Streams are torn down at either end at any step: `CloseSender`,
`CloseReceiver`, `HangUp`.

### Backpressure

A bounded tokio channel admits waiting senders in the order in which they came, so
`out[e]` holds the queued frames and, behind position `Queue`, one frame of every
sender that waits. Streams are pooled: `credit[e]` is what all windows of an end pay
for, in frames, and at most `Tasks` body tasks wait at a time. A read loop whose
answer (WindowUpdate, Pong) waits handles no frame. Readers of bodies take them at
once here; FlowControl has the others.

### Lifecycle

One action per await of `run` and `run_session`: `Dial`, the session call
(`CallAccepted`, `CallRefused`), the frames up to the tunnel status (`Welcomed`,
`RegisterTunnel`), a frame whose handler waits for room in a body queue or the outbound
queue (`HoldUp`, `GoOn`), the ends of a session (`LeaveSession`, `StreamOver`), which the
select takes only between frames, and the rest of the loop (`RunEnds`, `BackOff`,
`WakeUp`). `Exit` is `serve` of the command line,
which returns as soon as it has sent the stop flag. On the edge: `ReadEnds` and
`Teardown` of a session, `EdgeShutdown`, `ListenerStops`, `ControlReturns`,
`ShutdownReturns`. A session of an agent is a small number that is used again once
neither the edge nor the table knows it. `redials` is a history variable. The table is
the one that survives the edge (Redis); a table in memory is the case in which
`Expire` follows the edge's end at once.

### RouteNames

Text is a sequence of symbols over an alphabet with one representative for each class
of characters the code distinguishes. The state machine is short: an agent's user types a name, the
name is registered as a subdomain, custom domain, random name or TCP port, and a
visitor writes the resulting host in one of its spellings. The operators keep the names
of the functions they stand for; the properties compare them with definitions that do
not use them.

### StreamMux

A stream id is never reused, so a stream is named by its request. `Admit`,
`Insert`, `Count`, `OpenSent` are separate because `open_http_stream` loads,
inserts and increments in separate atomic operations while `close_all_streams`
runs. `CloseStream` is `close_stream` up to the closed semaphore and `CountDown` the
decrement, in any order with the limit tests and counts of others. `raced` is a history
variable: the requests that passed the limit test while another one was between its own
test and its count (`Between`). Frames within a stream are in order; across streams nothing depends on
order. `open_streams` wraps at `Wrap`, standing for 2^64. Switches:
`QueueFills` (may `try_send` find the outbound queue full?), `ReadsBody` (do
local services read request bodies to the end?), `MayBreak`.

`ResponsePipe` is what remains of it for the public client: an error page, or a response
that begins, grows by what the local service has produced, and ends once. `Seen` maps
the ingress task to it: everything up to the response head is `"asked"`, and a request
stays intact until the connection breaks or its own upload fails. `ResponseIntact` is what
the pipe says of whole responses, as an invariant of this module.

Six behaviours of the code that the properties had to be worded around:

- a client that leaves before the response head drops the ingress future, which
  has no guard yet: the entry stays until the agent's next frame, and the agent,
  whose data is dropped without a Reset, parks when its window is spent.
  `StreamsReleased` covers the entry; `AgentTasksEnd` excludes the outcome
  `"gone"`. Where the outbound queue is full the client can leave before Open was sent,
  and then no frame comes: `StreamsReleased` says so itself;
- the guard's Reset goes through `try_send` (`ingress.rs:413`), and is lost where the
  queue is full. The task at the agent may then wait for credit that does not come: the
  last disjunct of `AgentTasksEnd`;
- a local service that answers without reading its request body makes the next
  data frame remove the stream from the agent's map (`agent.rs:327`), and the
  response stops with neither End nor Reset. `RequestAnswered` excludes such
  requests, and so does `StreamsReleased` where the client left before the head;
  `ImplementsPipe` does not;
- a failed upload resets the stream while a response may be on its way, so a
  client whose own upload failed is not owed a complete response;
- a Reset drops the sender of the local request body and puts no error in it
  (`agent.rs:111-115`, `agent.rs:333-336`), so the local service sees the cut upload end
  like a whole one. `UploadWhole` is about streams that are not given up;
- a window smaller than a frame never pays for it (`session.rs:230`), so
  `BodyDelivered` needs `Window >= Chunk[x]`.

## 3. Runs

Passing runs:

| Run | Checks | Shows |
|---|---|---|
| `control_plane` | `TypeOK`, `TunnelLimit`, `RouteNamesLiveTunnel`, `ImplementsOwnership` | two sessions on two nodes contend for a key, with tunnels sharing it, late heartbeats, a failing call and a crash: ownership stays exclusive, no record names a tunnel nobody answers for |
| `control_liveness` | `ImplementsFairOwnership`, `StaleBeliefResolved` | what a dead session held becomes free, whether or not its release was made; a session that lost a key does not go on listing the tunnel |
| `ingress` | `OneHop`, `RouteSurvives`, `RouteDropsOnlyByOwner` | with punctual heartbeats and TTL 3 a failed renewal does not cost a healthy tunnel its route; a request racing registration, teardown and a crash hops at most once and cleans up only stale records |
| `ingress_liveness` | `RoutedRequestServed` | a request for a kept route ends at its owner or in a 502 |
| `flow_control` | `TypeOK`, `CreditConserved`, `WindowRespected`, `NeverStuck`, `BodyDelivered`, `ReadLoopReturns` | two streams with different frame sizes, one with a reader that may stop, torn down at either end at any step, neither lose nor invent credit; a body on its way always has somebody to act for it; bodies that are read arrive in full; only a slow reader with a full body queue stops the read loop |
| `stream_mux` | `TypeOK`, `StreamsCounted`, `LimitHeld` | two requests racing for one stream slot, full queues and a session teardown, with the decrement apart from the removal: counter and table agree up to what is between the two, and only requests that race each other get past the limit |
| `stream_liveness` | `AnswersMove`, `UploadWhole`, `ImplementsPipe`, `RequestAnswered`, `StreamsReleased`, `AgentTasksEnd`, `TasksEndWithSession` | a request behaves like the pipe; while the connection holds, what ends cleanly is complete in both directions, with local services that answer early too, and no response under way waits for nothing; requests end, entries are released, agent tasks end with their request (the queue has room here) or, unless parked without credit, with the session |
| `lifecycle` | `TypeOK`, `BackoffSchedule`, `RetriesHonoured`, `ReadyIsRouted`, `AgentStops`, `DrainCompletes`, `AgentReconnects` | an agent against an edge that is drained, killed and restarted, with lost connections and failed reads: schedule and retries are kept, a tunnel taken for online is routed, the agent comes back, and both programs stop when asked, unless a frame's handler waits for good |
| `route_names` | `TypeOK`, `VisitorsFindTunnel`, `TcpKeysApart`, `ReservedGuarded`, `CustomDomainsGranted`, `NamesToldApart`, `RecordSurvives` | every text of up to five symbols, two accounts (one was granted the custom domains below the base domain), all spellings of a host: registration and lookup agree, nothing but such a grant gets around the reserved list, nothing around the grants, stored records are read back |

Runs that expect a violation, each a disagreement between the code and what the
repository says of it (quoted in `PROJECT.json`, `findings`):

| Run | Property violated | What the code does |
|---|---|---|
| `stream_truncated` | `CleanEndIsComplete` | a session that ends mid-response ends the public body cleanly |
| `backpressure` | `SomebodyMoves` | with more credit than queue and transport hold, both read loops wait for room in their own queue and neither reads: the session stands still |
| `reconnect` | `TunnelComesBack` | an agent that is back before its former session is torn down is refused its own key and never asks again |

More disagreements were met on the way. Those a property had to be worded around:

- a refused renewal drops one tunnel and keeps the session (`control.rs:218`), where a
  caller must treat it as "my tunnel is gone, tear the session down"
  (`registry.rs:120`);
- a local service that stops reading one upload stops the session's read loop
  (`agent.rs:320`), although "one slow local handler cannot stall the session's control
  traffic" (`agent.rs:8-10`): the second disjunct of `ReadLoopReturns`. The request to
  stop waits with it: the second disjuncts of `AgentStops` and `DrainCompletes`;
- requests pass the stream limit together (`session.rs:174`), which is one of the
  "Per-account ceilings enforced at the edge" (`auth.rs:30`): `LimitHeld` is about the
  streams of requests that did not race;
- agent tasks parked on credit outlive their session, since `run_session` of the agent
  closes no semaphore; the edge does so because otherwise it "would leak a task blocked
  forever on credit" (`session.rs:611-612`): the last disjunct of `TasksEndWithSession`;
- the guard's Reset is dropped when the outbound queue is full, and the agent does not
  "find out via the next frame it sends" (`ingress.rs:411`): the edge drops that frame
  without an answer. Without its last disjunct `AgentTasksEnd` fails with
  `QueueFills = TRUE`; as it stands it holds with either value, and says most with
  `FALSE`, the value its run has;
- `attempt` is reset only when the edge ends the session in good order, which it does
  only after a read error of its own (`agent.rs:138`). After any number of healthy sessions that ended
  with an error the agent waits up to 30 s for an edge that "should be picked back up
  in under a second" (`client/src/config.rs:126`), and `max_retries` counts them all:
  `BackoffSchedule` and `RetriesHonoured` count from the last clean end;
- `shutdown` "signals every listener to stop and waits for them" (`lib.rs:55`), but the
  edge never sends the frame that says "The edge is going away; reconnect elsewhere"
  (`tunnel.proto:154`), so agents stay, the control plane waits for them, and the
  routes of a node whose public and peer listeners are closed are renewed on:
  `DrainCompletes` needs the agents to leave;
- a custom domain may contain a tab that the operator granted, and the record of its
  route then has a seventh field, although "none of these fields may contain a tab"
  (`registry.rs:51`): `RecordSurvives` is about the other keys.

And those that no property is about:

- the tunnel ceiling is compared with the tunnels of one session (`control.rs:329`), so
  that an account with two sessions has twice its ceiling;
- an account without reserved subdomains may have "random subdomains only"
  (`auth.rs:21-22`); every subdomain that is not reserved goes to whoever asks first
  (`control.rs:414-416`);
- exact grants of custom domains ignore case and wildcards do not (`auth.rs:65-72`): a
  wildcard with an upper-case letter grants nothing;
- a heartbeat whose snapshot is older than a `CloseTunnel` reports "routing claim
  lost" for a tunnel the agent closed itself, although the comment says "Someone else
  owns our key now" (`control.rs:210`);
- the wire protocol calls Reset the "Abortive teardown of a single stream"
  (`tunnel.proto:48`, of the frame both ends use), but the local service of a stream that
  is reset sees its request body end without an error, as said in section 2;
- credit goes back when a frame is buffered, not when it is read, so a stream holds a
  full body queue on top of its window, where `docs/SCALING.md:111` calls the window
  the direct knob for memory.

### Bounds, and why they are enough

- *Two sessions, two nodes, one key*: contention needs two claimants and one key;
  local and remote routing need two nodes. A third session would meet the key
  free or taken as the second does. Three tunnel ids let a session hold two on
  one key and register another after closing one. `ingress_liveness` has one session,
  since its property gives up as soon as the key changes hands.
- *Ttl 2 or 3*: with 1, every record lapses at every tick. 2 is the least value
  with which a record survives a tick, and explores the same transitions faster;
  `ingress`, which is also about the length of the lease, uses the real 3
  (`config.rs:100`). With two failed calls `RouteSurvives` is false, as it should be.
- *One error, one crash* per behaviour. The theorems hold for any number of both.
- *FlowControl*: `Window` is not a multiple of every frame size, a body of three
  large frames exceeds it, and a body queue holds one frame, so credit and queue
  limits both bite. One stream's reader may stop for good, the other's may not.
- *Backpressure*: queue and transport of one frame each and credit for three are the
  smallest sizes with which the loops meet; the theorem has all sizes.
- *Lifecycle*: one agent, as agents share only the edge's listeners; two sessions known
  at a time, the new and the stale one; two faults, so that the session after a
  reconnect fails, too; nine retries reach both the 30 s plateau (after seven) and
  `max_retries`. `AttemptMax` stands for `u32::MAX`; the code's shift is capped at 8, so
  that no smaller value would be a faithful stand-in (`WidthAssumption`). `reconnect`
  needs one fault.
- *RouteNames*: five symbols make room for a label, a dot, a base domain and a port with
  something in between; the caps on lengths are scaled down so that texts exceed them. The
  base domain comes to `n`; the grants are `N.tcp` and the wildcard `*.xn` of one account
  and `*.n`, below the base domain, of the other.
- *StreamMux*: two requests for the limit and counter, with empty response bodies: a
  stream is closed by a timeout, a Reset, an End, the guard or the teardown all the same,
  and the close in `on_stream_data` is left to `stream_liveness` and the proofs. One
  request for bodies and liveness, because requests touch each other only through the
  limit (queues they share are in FlowControl). The body exceeds the window so that tasks
  park.
- *Symmetry* only over tunnel ids and requests, and only in runs without
  liveness properties.

### Deadlock

The control plane never stops (time passes). Streams and bodies really do finish,
so the FlowControl and StreamMux configurations switch deadlock checking off;
that nothing stops too early is what their liveness properties say. Agents stop, edges
stay down after the last start, and a name is looked up once: so do `Lifecycle` and
`RouteNames`. In `backpressure` the deadlock is stated as an invariant.

### Fairness

Tokio runs every ready task, registry calls return (possibly with an error) and
time passes: weak fairness on the steps of read loops, heartbeats, handlers and
`Tick`. In FlowControl a frame competes with other streams' frames for the read
loop, which takes them in the order of arrival: a frame under way is not overtaken
for ever, hence strong fairness on `Receive`. Local services answer a request
they have received in full and the head timeout always fires. In Lifecycle both
programs keep running, both ends notice a broken connection in the end (HTTP/2 or TCP
does), and leases nobody renews lapse. A frame's handler need not return; but an agent
that comes back to its select again and again leaves a session that is over or that it was
asked to leave (strong fairness on `LeaveSession` and `StreamOver`): `select!` takes its
ready branches in random order, and a broken connection has finitely many frames left.
What agents, public
clients and failures *may* do (register, close, hang up, crash, disconnect, stop
reading for streams in `Slow`, be asked to stop, be killed or restarted) is owed by
nobody.

## 4. Proofs

Every theorem holds for any sets of nodes, sessions, keys, tunnels, requests, streams
and agents, any TTL, limits, windows, bodies, names and fault budget that satisfy the
named assumptions in the modules that declare the constants. These say what the code's
types say (`TtlAssumption`, `NullAssumption`, `NodesAssumption`, `SizesAssumption`,
`LivesAssumption`, ...); those that say more are:

- `WrapAssumption`: fewer requests at a time than `open_streams` has values (2^64);
- `WidthAssumption`: `max_retries` and the attempt counter are both u32, and a u32
  exceeds the 8 at which the shift is capped;
- `TextAssumption`, `ReservedAssumption`: base domain and grants are text over the
  alphabet, the reserved labels are written as valid labels are, in lower case;
- `RandomAssumption`: no reserved label has the length of a generated one (the code
  has 12 and says so).

**ControlPlaneProofs**

- `TypeCorrect`: `Spec => []TypeOK`.
- `LimitHolds`: `Spec => []TunnelLimit`. The limit is tested before the claim and
  the tunnel inserted after it. The invariant `LimitInv` says that
  there is room while a claim is under way; only the read loop adds tunnels, and the heartbeat only
  removes them, so the room is still there.
- `DropsOnlyByOwner`: `Spec => RouteDropsOnlyByOwner`. Releases by the read loop and
  by teardown name a tunnel of their own session; releases by ingress name a
  session that was found unregistered, and a session never becomes registered
  again.
- `OwnershipRefined`: `Spec => ImplementsOwnership`, step simulation under the
  mapping `holder <- owner`, `ended <- {s : phase[s] = "gone"}`. The step that needs
  the invariant is the claim: a read loop that claims belongs to a session that has
  not ended.

All rest on one inductive invariant, `IndInv`, of four parts: `TypeOK`; `HandsOK`
(every tunnel a read loop or heartbeat has in hand, lists or still has to work on has a
key); `PhasesOK` (which read loop steps go with which phase, and a session that never
started owns nothing); `RequestsOK` (a request routed found a session that started, one
in clean-up found a session that is gone). None of the properties is inductive by itself.
`LimitHolds` adds `LimitInv`, that a session with a claim under way has room left.

**RouteProofs**, on top of `IndInv`:

- `NoOrphanedRoutes`: `Spec => []RouteNamesLiveTunnel`. The property says nothing of
  calls that are still to come, so `LiveInv` adds three parts: a record names a tunnel
  that was registered for its key (`Records`); a tunnel whose claim is on its way is
  listed, renewed and recorded nowhere yet (`Fresh`), so that nothing else removes or
  renews it; a tunnel whose renewal was refused is in no record of its session
  (`Refusals`), so that the heartbeat may drop it. The last one is what makes
  the renewal and the removal of a refused tunnel, two steps with any number of others
  in between, leave no record behind.
- `HealthyRoutesSurvive`: `Spec => []RouteSurvives`, for all TTLs and fault budgets
  under the property's own condition (`MaxErrors + 2 <= Ttl`, punctual heartbeats,
  unshared keys). `KeptInv` counts: the time left on the record of a listed tunnel, one
  interval for each call that failed and one for a renewal that is due add up to at
  least the TTL, so that the record has time left whenever an interval ends.
- `HandedOverOnce`: `Spec => []OneHop`.

**FlowControlProofs**

- `TypeCorrect`, `CreditIsConserved`, `WindowIsRespected`. Each step does one of four
  things to a stream: leaves credit and outstanding frames alone (`Untouched`), turns
  credit into an outstanding frame (`Bought`), turns an outstanding frame into credit
  (`PaidBack`), or loses an outstanding frame of a stream that is closed at one end
  (`Lost`). The first three keep the sum, the last lowers it, and a closed end does not
  reopen. The arithmetic is one lemma for each of the four.
- `StreamsNeverStuck`: `Spec => []NeverStuck`, for all windows, frame sizes and body
  queues. On top of the credit it counts the frames (`FramesKept`): on a stream that is
  whole at both ends, the frames to send, on their way, in the read loop's hand,
  buffered and delivered add up to the body. If no frame and no update is on its way, all
  credit is back with the sender, who has a frame left, and the window pays for it.

**StreamMuxProofs**

- `CounterAgrees`: `Spec => []StreamsCounted`. The part `Counted` says that the counter
  and the streams inserted but not yet counted add up to the streams in the table or out
  of it and not counted down (`Held`), or exceed them by exactly `Wrap`: between the
  insertion and the increment the stream may be closed, and the counter then passes
  below zero.
- `LimitIsHeld`: `Spec => []LimitHeld`. The part `SlotsKept` says that the streams held,
  together with the requests past the test and not yet inserted, are at most the limit
  once those that raced are left out: a request that passes the test while nobody is
  between test and count finds a counter that is exact, by `Counted`. `ClosedOnce` says
  that a stream on its way out is in the table no more, nor ever again.
- `ResponseComplete`: `Spec => []ResponseIntact`. For every request the data delivered,
  buffered, on its way and not yet read add up to at most the body, and to the whole of
  it as long as the edge has dropped nothing (`Undropped`). It drops only frames of streams it
  has closed, and closes the stream of a request in progress, while the connection
  holds and the upload did not fail, only at its last frame; End and
  Reset are the last frame wherever they are (`Ordered`). What makes the argument
  go through is that nothing comes back before Open is read, and Open comes once
  (`Unopened`, `Unserved`).
- `TypeCorrect`: with the bounds on `received`, `left` and `credit`, which follow from
  the same sums.
- `PipeRefined`: `Spec => ImplementsPipe`, step simulation with one lemma for the steps of
  a request and one for those of the connection. Two steps need the invariant: a chunk
  delivered was produced (the sum above), and a clean end of an intact request comes
  after all of the body (`Undropped`, in the state after the step).
- `ResponsesMove`: `Spec => []AnswersMove`. No timeout covers a response body, so that a
  wait of both ends for each other would last as long as the session. `AnswersMove` is
  not inductive: `MoveInv` adds that the head comes only with its response (`Headed`),
  and that, as long as the edge awaits the response to an upload that is read, no Reset is
  on its way, the agent's task keeps its stream and all of its credit is somewhere
  (`Paid(q) = Window`), or its last frame is on the way (`Alive`).
- `UploadsWhole`: `Spec => []UploadWhole`. End is queued only by a pump that is done,
  behind all of its data, and taken after it (`EndAfterData`); `Alive` rules out the
  Reset that would end the body early.

The frames in a queue are counted with `Tally`, the number of positions that hold a
frame; the `Tally` lemmas say what appending and taking off do to it.

**BackpressureProofs**

- `SizingRule`: if `2 * Window + Pings < 2 * (Queue + Pipe + 1)`, then `SomebodyMoves`
  always holds. The violating run has sizes that break the rule (`2 * 3 + 1` against
  `2 * (1 + 1 + 1)`). The inductive invariant bounds the load of both ends: permits left,
  frames queued or waiting and frames on their way are at most twice the window plus
  the pings without an answer, because a frame replaces a permit, an update replaces a
  frame, and a Pong replaces a Ping. Two waiting read loops need more than that. The
  code has `Queue = 1024`; its default limits (512 streams, windows of four full frames)
  give `Window = 2048`.

**LifecycleProofs**

- `TypeCorrect`, `DelaysScheduled` (`BackoffSchedule`), `GivesUpInTime`
  (`RetriesHonoured`), `OnlineMeansRouted` (`ReadyIsRouted`). The part `Counted` ties
  the attempt counter of `run`, which saturates, to the history of reconnects: equal to
  it while the agent is active, one ahead while it sleeps, with the delay computed
  before the increment. The part `AllRouted` says that what an agent believes about its
  tunnel is about its present session, and that a believed tunnel of a session that is
  open at both ends has that session's route: registration takes only a free route, a
  teardown frees only its own, and a lease lapses only when its session is gone.
- `BackoffSchedule` is stated with its ceiling (`redials < 7`): that 250 ms doubled
  seven times or more exceeds 30 s for every number is an induction that the provers
  do not do, and the two wordings say the same.

**RouteNamesProofs**, about text of any length:

- `TypeCorrect`: keys of HTTP tunnels are lower-case ASCII;
- `CustomDomainsChecked`: `Spec => []CustomDomainsGranted`, from what `strip_suffix`
  returns (`StripSuffixParts`);
- `NoHostIsTcpKey`: `Spec => []TcpKeysApart`. A colon is left only in an address in
  brackets (`WithoutPortColon`);
- `PlainNamesFound`: `Spec => [](PlainName(key) => VisitorsFindTunnel)`. A name of
  letters, digits, hyphens and dots is found under every spelling: blanks go
  (`TrimAround`), then the port (`PortGoes`), then the root dot (`DotGoes`), then the
  case, in the order of `normalize_host`. `Registrable` says what is registered: text
  within the limits that does not end in a dot. `SubdomainsFound` covers the edge's own
  names where the base domain is plain;
- `ReservedNamesGuarded`: `Spec => []ReservedGuarded`, for all kinds of requests and any
  grants. A key made from a label comes from one that validation keeps and that, when
  reserved, was granted (`OwnNames`, `ReservedNamesKept`); names below one base domain are
  equal only when their labels are (`SameLabel`). A TCP key is no such name
  (`TcpKeyNoName`). A custom domain is covered by a grant, and since the reserved label has
  no dot, a wildcard that covers the name is one for the base domain or a domain above it
  (`GrantReaches`);
- `PlainNamesToldApart`: where the base domain is a plain host name,
  `Spec => [](PlainName(key) => NamesToldApart)`, for any grants. `subdomain_of` undoes
  `public_host` (`OwnNamesRecognised`), and what it finds in a custom domain is a name of
  one label below the base domain, so that `GrantReaches` applies;
- `RecordsRoundTrip`, `RecordsSurvive`: `Spec => []RecordSurvives`. `Encode` joins six
  fields with tabs. The first field of such a text is the one that `Then` put before the
  rest, and the others are the fields of the rest (`ThenFields`); five times that, and
  `LastField`, give the record back. The fourth field is what the pattern of the Lua
  scripts matches.

An operator who grants a custom domain below the base domain gives its holder the edge's
own names, reserved or not: the code does not compare the two (`control.rs:401-408`). The
properties name this as the one way around the reserved list, and the tenant of the run
takes it. A base domain with blanks, brackets or colons inside gives names that are no DNS
names, and only what has no hypothesis on it is proved of those.

**Only model-checked**

- Everything that must eventually happen (`ImplementsFairOwnership`,
  `StaleBeliefResolved`, `RoutedRequestServed`, `BodyDelivered`, `ReadLoopReturns`,
  `RequestAnswered`, `StreamsReleased`, `AgentTasksEnd`, `TasksEndWithSession`,
  `AgentStops`, `DrainCompletes`, `AgentReconnects`): TLAPS does not do liveness under
  fairness.
- `VisitorsFindTunnel` and `NamesToldApart` for custom domains with blanks or brackets
  inside, which are no plain names.

## 5. Not modelled

- `split_chunks` and frames of mixed sizes in one stream: FlowControl has one frame size
  per stream;
- the order of frames of different streams on one connection, beyond what Backpressure
  keeps of it;
- the events channel from `run` to the command line, which holds 64 events and is always
  read;
- header filtering, error pages, token files, command lines, logging and
  generated protocol code: stateless, or text.

## 6. Mutants

Every property of every passing run has a mutant of the code that violates it under the
run's own configuration: dropped owner tests in the table's scripts, a renewal that does
not extend the lease, an off-by-one in the limits, a signed counter, a session removed before its routes
are released, a heartbeat that is not aborted, a hop mark not set, permits not
forgotten, a window update never sent, a stream counted out twice or never
closed, a guard that does not tell the agent, a time limit on the whole response, a
failed upload that ends like a whole one, a frame dropped on a full queue, a retry after
a failed send, a counter that is not reset or compared one off, a backoff without its
ceiling, a listener that misses the shutdown flag, a host normalised in the wrong order,
a name tested as it was sent, a wildcard matched as a mere suffix, a separator that
occurs in a field.

## 7. Plan

Every safety property that a passing run checks is a theorem. What is left, in this order:

1. Composition of StreamMux with FlowControl's byte windows: `AnswersMove` and
   `NeverStuck` say of one stream what `SizingRule` says of the outbound queues, each in
   a module that takes the others' part for granted.
2. The action behind `StaleBeliefResolved`: which steps may drop a tunnel from the list of
   its session.
3. Uploads of more than one frame in StreamMux, for a run that counts what the local
   service got of them.
