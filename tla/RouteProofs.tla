----------------------------- MODULE RouteProofs -----------------------------
(***************************************************************************)
(* What the routing table holds, for every value of ControlPlane's         *)
(* constants: no record is orphaned unless a call failed or a node died,   *)
(* punctual heartbeats keep a healthy session's routes, and a request is   *)
(* handed over once.                                                       *)
(***************************************************************************)
EXTENDS ControlPlaneProofs

-----------------------------------------------------------------------------
(* Every record names a tunnel its session answers for. *)

\* A record names a tunnel that was registered for its key.
Records ==
    \A k \in Keys : owner[k] \in Sessions =>
        routeTunnel[k] \in Tunnels /\ tunnelKey[routeTunnel[k]] = k

\* A tunnel whose claim is on its way is in no list and no record yet.
Fresh ==
    \A s \in Sessions : reader[s] = "claim" =>
        /\ inHand[s] \notin tunnels[s] \cup toRenew[s]
        /\ beat[s] = "refused" => refused[s] # inHand[s]
        /\ \A k \in Keys : owner[k] = s => routeTunnel[k] # inHand[s]

\* A tunnel whose renewal was refused is in no record of its session, nor will be.
Refusals ==
    \A s \in Sessions : beat[s] = "refused" =>
        /\ refused[s] \in Tunnels /\ tunnelKey[refused[s]] \in Keys
        /\ \A k \in Keys : owner[k] = s => routeTunnel[k] # refused[s]

LiveInv == Records /\ Fresh /\ Refusals /\ RouteNamesLiveTunnel

\* A step leaves the record of j alone.
Still(j) == owner'[j] = owner[j] /\ routeTunnel'[j] = routeTunnel[j] /\ ttl'[j] = ttl[j]

\* A release frees the session's own record, or leaves all alone.
LEMMA ReleaseEffect ==
    ASSUME TableTypeOK, NEW k \in Keys, NEW s \in Sessions, Release(k, s)
    PROVE  /\ \A j \in Keys : Still(j) \/ (j = k /\ owner[j] = s /\ owner'[j] = NoSession)
           /\ owner'[k] # s
  BY NullAssumption DEF TableTypeOK, Release, ReleasedBy, Drop, table, Still

\* A release through the registry: unless it fails, the session is rid of the key.
LEMMA CallReleases ==
    ASSUME TypeOK, NEW s \in Sessions, NEW t \in Tunnels, tunnelKey[t] \in Keys,
           NEW o \in Outcomes, CallRelease(s, t, o)
    PROVE  /\ \A j \in Keys : \/ Still(j)
                              \/ j = tunnelKey[t] /\ owner[j] = s /\ owner'[j] = NoSession
           /\ tainted \subseteq tainted' /\ (s \in tainted' \/ owner'[tunnelKey[t]] # s)
           /\ errors' \in {errors, errors + 1}
<1>1. CASE o = "not applied"
  BY <1>1 DEF CallRelease, Taints, Outcome, table, Still
<1>2. CASE o # "not applied"
  BY <1>2, ReleaseEffect DEF TypeOK, CallRelease, Taints, Outcome
<1>. QED
  BY <1>1, <1>2

\* Every record stays live: Handshake.
LEMMA LiveHandshake ==
    ASSUME IndInv, LiveInv, NEW s \in Sessions, Handshake(s)
    PROVE  LiveInv'
<1> USE NullAssumption, KeyAssumption
<1> USE DEF IndInv, TypeOK, TableTypeOK, LiveInv, sessionVars, readerVars, beatVars,
            faultVars, table
<1>1. Records'
  BY DEF Handshake, Records, HandsOK
<1>2. Fresh'
  BY DEF Handshake, Fresh, HandsOK, Records
<1>3. Refusals'
  BY DEF Handshake, Refusals, HandsOK, Records, Fresh
<1>4. RouteNamesLiveTunnel'
  BY DEF Handshake, RouteNamesLiveTunnel, HandsOK, PhasesOK, Records, Fresh, Refusals,
         Answerable, Registered, Reading
<1>. QED
  BY <1>1, <1>2, <1>3, <1>4

\* Every record stays live: ConnectionLost.
LEMMA LiveConnectionLost ==
    ASSUME IndInv, LiveInv, NEW s \in Sessions, ConnectionLost(s)
    PROVE  LiveInv'
<1> USE NullAssumption, KeyAssumption
<1> USE DEF IndInv, TypeOK, TableTypeOK, LiveInv, sessionVars, readerVars, beatVars,
            faultVars, table
<1>1. Records'
  BY DEF ConnectionLost, Records, HandsOK
<1>2. Fresh'
  BY DEF ConnectionLost, Fresh, HandsOK, Records
<1>3. Refusals'
  BY DEF ConnectionLost, Refusals, HandsOK, Records, Fresh
<1>4. RouteNamesLiveTunnel'
  BY DEF ConnectionLost, RouteNamesLiveTunnel, HandsOK, PhasesOK, Records, Fresh, Refusals,
         Answerable, Registered, Reading
<1>. QED
  BY <1>1, <1>2, <1>3, <1>4

\* Every record stays live: RegisterTunnel.
LEMMA LiveRegisterTunnel ==
    ASSUME IndInv, LiveInv, NEW s \in Sessions, NEW k \in Keys, NEW t \in Tunnels,
           RegisterTunnel(s, k, t)
    PROVE  LiveInv'
<1> USE NullAssumption, KeyAssumption
<1> USE DEF IndInv, TypeOK, TableTypeOK, LiveInv, sessionVars, readerVars, beatVars,
            faultVars, table
<1>1. Records'
  BY DEF RegisterTunnel, Records, HandsOK
<1>2. Fresh'
  <2>1. /\ tunnelKey[t] = NoKey /\ tunnelKey[t] \notin Keys
        /\ inHand' = [inHand EXCEPT ![s] = t] /\ reader' = [reader EXCEPT ![s] = "claim"]
        /\ UNCHANGED <<owner, routeTunnel, tunnels, toRenew, refused, beat>>
    BY DEF RegisterTunnel
  <2>2. /\ t \notin tunnels[s] \cup toRenew[s]
        /\ beat[s] = "refused" => refused[s] # t
        /\ \A j \in Keys : owner[j] = s => routeTunnel[j] # t
    BY <2>1 DEF HandsOK, Records, Refusals
  <2>. QED
    BY <2>1, <2>2 DEF Fresh
<1>3. Refusals'
  BY DEF RegisterTunnel, Refusals, HandsOK, Records, Fresh
<1>4. RouteNamesLiveTunnel'
  BY DEF RegisterTunnel, RouteNamesLiveTunnel, HandsOK, PhasesOK, Records, Fresh, Refusals,
         Answerable, Registered, Reading
<1>. QED
  BY <1>1, <1>2, <1>3, <1>4

\* Every record stays live: CallClaim.
LEMMA LiveCallClaim ==
    ASSUME IndInv, LiveInv, NEW s \in Sessions, CallClaim(s)
    PROVE  LiveInv'
<1> USE NullAssumption, KeyAssumption
<1> USE DEF IndInv, TypeOK, TableTypeOK, LiveInv, sessionVars, readerVars, beatVars,
            faultVars, table
<1> DEFINE k == tunnelKey[inHand[s]]
<1>0. inHand[s] \in Tunnels /\ k \in Keys
  BY DEF CallClaim, HandsOK
<1>a. /\ \A j \in Keys \ {k} : Still(j)
      /\ \/ Still(k)
         \/ /\ owner[k] \in {NoSession, s} /\ owner'[k] = s
            /\ routeTunnel'[k] = inHand[s]
            /\ reader'[s] = "acquired" \/ s \in tainted'
      /\ tainted \subseteq tainted'
  <2>1. PICK o \in Outcomes :
          /\ IF o = "not applied" THEN UNCHANGED table ELSE Claim(k, s, inHand[s])
          /\ Taints(o, s)
          /\ o = "ok" /\ Claimable(k, s) => reader' = [reader EXCEPT ![s] = "acquired"]
    BY DEF CallClaim
  <2>2. tainted \subseteq tainted' /\ (o = "ok" \/ s \in tainted')
    BY <2>1 DEF Taints
  <2>3. CASE UNCHANGED table
    BY <2>2, <2>3 DEF Still
  <2>4. CASE Claimable(k, s) /\ Claim(k, s, inHand[s])
    BY <1>0, <2>1, <2>2, <2>4 DEF Claim, Claimable, Still
  <2>. QED
    BY <2>1, <2>3, <2>4 DEF Claim
<1>b. /\ reader[s] = "claim"
      /\ \A r \in Sessions \ {s} : reader'[r] = reader[r] /\ inHand'[r] = inHand[r]
      /\ \/ reader'[s] = "acquired" /\ inHand'[s] = inHand[s]
         \/ reader'[s] = "idle"
      /\ UNCHANGED <<sessionVars, toRelease, beatVars>>
  BY DEF CallClaim
<1> HIDE DEF k
<1>1. Records'
  <2>1. tunnelKey[inHand[s]] = k
    BY DEF k
  <2>. QED
    BY <1>0, <1>a, <1>b, <2>1 DEF Still, Records
<1>2. Fresh'
  BY <1>0, <1>a, <1>b DEF Still, Fresh
<1>3. Refusals'
  BY <1>0, <1>a, <1>b DEF Still, Refusals, Fresh
<1>4. RouteNamesLiveTunnel'
  <2> SUFFICES ASSUME NEW j \in Keys, NEW r \in Sessions \ tainted', owner'[j] = r
               PROVE  Registered(r)' /\ routeTunnel'[j] \in Answerable(r)'
    BY DEF RouteNamesLiveTunnel, Registered, Answerable
  <2>1. CASE Still(j)
    <3>1. owner[j] = r /\ r \notin tainted /\ routeTunnel'[j] = routeTunnel[j]
      BY <1>a, <2>1 DEF Still
    <3>2. Registered(r) /\ routeTunnel[j] \in Answerable(r)
      BY <3>1 DEF RouteNamesLiveTunnel, Registered, Answerable
    <3>3. CASE r = s
      <4>1. routeTunnel[j] # inHand[s]
        BY <1>b, <3>1, <3>3 DEF Fresh
      <4>. QED
        BY <1>b, <3>1, <3>2, <3>3, <4>1 DEF Registered, Answerable
    <3>4. CASE r # s
      BY <1>b, <3>1, <3>2, <3>4 DEF Registered, Answerable
    <3>. QED
      BY <3>3, <3>4
  <2>2. CASE ~Still(j)
    <3>1. r = s /\ routeTunnel'[j] = inHand[s] /\ reader'[s] = "acquired" /\ Reading(s)
      BY <1>a, <1>b, <2>2 DEF PhasesOK
    <3>. QED
      BY <1>b, <3>1 DEF Registered, Reading, Answerable
  <2>. QED
    BY <2>1, <2>2
<1>. QED
  BY <1>1, <1>2, <1>3, <1>4

\* Every record stays live: TunnelRegistered.
LEMMA LiveTunnelRegistered ==
    ASSUME IndInv, LiveInv, NEW s \in Sessions, TunnelRegistered(s)
    PROVE  LiveInv'
<1> USE NullAssumption, KeyAssumption
<1> USE DEF IndInv, TypeOK, TableTypeOK, LiveInv, sessionVars, readerVars, beatVars,
            faultVars, table
<1>1. Records'
  BY DEF TunnelRegistered, Records, HandsOK
<1>2. Fresh'
  BY DEF TunnelRegistered, Fresh, HandsOK, Records
<1>3. Refusals'
  BY DEF TunnelRegistered, Refusals, HandsOK, Records, Fresh
<1>4. RouteNamesLiveTunnel'
  BY DEF TunnelRegistered, RouteNamesLiveTunnel, HandsOK, PhasesOK, Records, Fresh,
         Refusals, Answerable, Registered, Reading
<1>. QED
  BY <1>1, <1>2, <1>3, <1>4

\* Every record stays live: CloseTunnel.
LEMMA LiveCloseTunnel ==
    ASSUME IndInv, LiveInv, NEW s \in Sessions, NEW t \in Tunnels, CloseTunnel(s, t)
    PROVE  LiveInv'
<1> USE NullAssumption, KeyAssumption
<1> USE DEF IndInv, TypeOK, TableTypeOK, LiveInv, sessionVars, readerVars, beatVars,
            faultVars, table
<1>1. Records'
  BY DEF CloseTunnel, Records, HandsOK
<1>2. Fresh'
  BY DEF CloseTunnel, Fresh, HandsOK, Records
<1>3. Refusals'
  BY DEF CloseTunnel, Refusals, HandsOK, Records, Fresh
<1>4. RouteNamesLiveTunnel'
  BY DEF CloseTunnel, RouteNamesLiveTunnel, HandsOK, PhasesOK, Records, Fresh, Refusals,
         Answerable, Registered, Reading
<1>. QED
  BY <1>1, <1>2, <1>3, <1>4

\* Every record stays live: TunnelClosed.
LEMMA LiveTunnelClosed ==
    ASSUME IndInv, LiveInv, NEW s \in Sessions, TunnelClosed(s)
    PROVE  LiveInv'
<1> USE NullAssumption, KeyAssumption
<1> USE DEF IndInv, TypeOK, TableTypeOK, LiveInv, sessionVars, readerVars, beatVars,
            faultVars, table
<1>a. /\ \A j \in Keys : \/ Still(j)
                         \/ owner'[j] = NoSession
      /\ tainted \subseteq tainted' /\ (s \in tainted' \/ owner'[tunnelKey[inHand[s]]] # s)
  BY CallReleases DEF TunnelClosed, HandsOK
<1>b. /\ reader[s] = "release" /\ reader' = [reader EXCEPT ![s] = "idle"]
      /\ inHand' = [inHand EXCEPT ![s] = NoTunnel]
      /\ UNCHANGED <<sessionVars, toRelease, beatVars>>
  BY DEF TunnelClosed
<1>1. Records'
  BY <1>a, <1>b DEF Still, Records
<1>2. Fresh'
  BY <1>a, <1>b DEF Still, Fresh
<1>3. Refusals'
  BY <1>a, <1>b DEF Still, Refusals
<1>4. RouteNamesLiveTunnel'
  <2> SUFFICES ASSUME NEW j \in Keys, NEW r \in Sessions \ tainted', owner'[j] = r
               PROVE  Registered(r)' /\ routeTunnel'[j] \in Answerable(r)'
    BY DEF RouteNamesLiveTunnel, Registered, Answerable
  <2>1. owner[j] = r /\ r \notin tainted /\ routeTunnel'[j] = routeTunnel[j]
    BY <1>a DEF Still
  <2>2. Registered(r) /\ routeTunnel[j] \in Answerable(r)
    BY <2>1 DEF RouteNamesLiveTunnel, Registered, Answerable
  <2>3. CASE r = s
    <3>1. routeTunnel[j] # inHand[s]
      BY <1>a, <2>1, <2>3 DEF Records
    <3>. QED
      BY <1>b, <2>1, <2>2, <2>3, <3>1 DEF Registered, Answerable
  <2>4. CASE r # s
    BY <1>b, <2>1, <2>2, <2>4 DEF Registered, Answerable
  <2>. QED
    BY <2>3, <2>4
<1>. QED
  BY <1>1, <1>2, <1>3, <1>4

\* Every record stays live: Disconnect.
LEMMA LiveDisconnect ==
    ASSUME IndInv, LiveInv, NEW s \in Sessions, Disconnect(s)
    PROVE  LiveInv'
<1> USE NullAssumption, KeyAssumption
<1> USE DEF IndInv, TypeOK, TableTypeOK, LiveInv, sessionVars, readerVars, beatVars,
            faultVars, table
<1>1. Records'
  BY DEF Disconnect, Records, HandsOK
<1>2. Fresh'
  BY DEF Disconnect, Fresh, HandsOK, Records
<1>3. Refusals'
  BY DEF Disconnect, Refusals, HandsOK, Records, Fresh
<1>4. RouteNamesLiveTunnel'
  BY DEF Disconnect, RouteNamesLiveTunnel, HandsOK, PhasesOK, Records, Fresh, Refusals,
         Answerable, Registered, Reading
<1>. QED
  BY <1>1, <1>2, <1>3, <1>4

\* Every record stays live: TeardownRelease.
LEMMA LiveTeardownRelease ==
    ASSUME IndInv, LiveInv, NEW s \in Sessions, NEW t \in Tunnels, TeardownRelease(s, t)
    PROVE  LiveInv'
<1> USE NullAssumption, KeyAssumption
<1> USE DEF IndInv, TypeOK, TableTypeOK, LiveInv, sessionVars, readerVars, beatVars,
            faultVars, table
<1>a. /\ \A j \in Keys : \/ Still(j)
                         \/ owner'[j] = NoSession
      /\ tainted \subseteq tainted' /\ (s \in tainted' \/ owner'[tunnelKey[t]] # s)
  BY CallReleases DEF TeardownRelease, HandsOK
<1>b. /\ reader[s] = "teardown" /\ t \in toRelease[s]
      /\ toRelease' = [toRelease EXCEPT ![s] = @ \ {t}]
      /\ UNCHANGED <<sessionVars, reader, inHand, beatVars>>
  BY DEF TeardownRelease
<1>1. Records'
  BY <1>a, <1>b DEF Still, Records
<1>2. Fresh'
  BY <1>a, <1>b DEF Still, Fresh
<1>3. Refusals'
  BY <1>a, <1>b DEF Still, Refusals
<1>4. RouteNamesLiveTunnel'
  <2> SUFFICES ASSUME NEW j \in Keys, NEW r \in Sessions \ tainted', owner'[j] = r
               PROVE  Registered(r)' /\ routeTunnel'[j] \in Answerable(r)'
    BY DEF RouteNamesLiveTunnel, Registered, Answerable
  <2>1. owner[j] = r /\ r \notin tainted /\ routeTunnel'[j] = routeTunnel[j]
    BY <1>a DEF Still
  <2>2. Registered(r) /\ routeTunnel[j] \in Answerable(r)
    BY <2>1 DEF RouteNamesLiveTunnel, Registered, Answerable
  <2>3. CASE r = s
    <3>1. routeTunnel[j] # t
      BY <1>a, <2>1, <2>3 DEF Records
    <3>. QED
      BY <1>b, <2>1, <2>2, <2>3, <3>1 DEF Registered, Answerable
  <2>4. CASE r # s
    BY <1>b, <2>1, <2>2, <2>4 DEF Registered, Answerable
  <2>. QED
    BY <2>3, <2>4
<1>. QED
  BY <1>1, <1>2, <1>3, <1>4

\* Every record stays live: TeardownDone.
LEMMA LiveTeardownDone ==
    ASSUME IndInv, LiveInv, NEW s \in Sessions, TeardownDone(s)
    PROVE  LiveInv'
<1> USE NullAssumption, KeyAssumption
<1> USE DEF IndInv, TypeOK, TableTypeOK, LiveInv, sessionVars, readerVars, beatVars,
            faultVars, table
<1>1. Records'
  BY DEF TeardownDone, Records, HandsOK
<1>2. Fresh'
  BY DEF TeardownDone, Fresh, HandsOK, Records
<1>3. Refusals'
  BY DEF TeardownDone, Refusals, HandsOK, Records, Fresh
<1>4. RouteNamesLiveTunnel'
  BY DEF TeardownDone, RouteNamesLiveTunnel, HandsOK, PhasesOK, Records, Fresh, Refusals,
         Answerable, Registered, Reading
<1>. QED
  BY <1>1, <1>2, <1>3, <1>4

\* Every record stays live: BeatStart.
LEMMA LiveBeatStart ==
    ASSUME IndInv, LiveInv, NEW s \in Sessions, BeatStart(s)
    PROVE  LiveInv'
<1> USE NullAssumption, KeyAssumption
<1> USE DEF IndInv, TypeOK, TableTypeOK, LiveInv, sessionVars, readerVars, beatVars,
            faultVars, table
<1>1. Records'
  BY DEF BeatStart, Records, HandsOK, NextBeat, Aborted
<1>2. Fresh'
  BY DEF BeatStart, Fresh, HandsOK, Records, NextBeat, Aborted
<1>3. Refusals'
  BY DEF BeatStart, Refusals, HandsOK, Records, Fresh, NextBeat, Aborted
<1>4. RouteNamesLiveTunnel'
  BY DEF BeatStart, RouteNamesLiveTunnel, HandsOK, PhasesOK, Records, Fresh, Refusals,
         Answerable, Registered, Reading, NextBeat, Aborted
<1>. QED
  BY <1>1, <1>2, <1>3, <1>4

\* Every record stays live: BeatRenew.
LEMMA LiveBeatRenew ==
    ASSUME IndInv, LiveInv, NEW s \in Sessions, NEW t \in Tunnels, BeatRenew(s, t)
    PROVE  LiveInv'
<1> USE NullAssumption, KeyAssumption
<1> USE DEF IndInv, TypeOK, TableTypeOK, LiveInv, sessionVars, readerVars, beatVars,
            faultVars, table
<1>a. owner' = owner /\ routeTunnel' = routeTunnel /\ tunnelKey[t] \in Keys
  BY DEF BeatRenew, HandsOK, Renew, Renewable
<1>b. /\ t \in toRenew[s]
      /\ \A r \in Sessions \ {s} : beat'[r] = beat[r] /\ refused'[r] = refused[r]
      /\ \/ beat'[s] # "refused"
         \/ beat'[s] = "refused" /\ refused'[s] = t /\ owner[tunnelKey[t]] # s
      /\ toRenew' = [toRenew EXCEPT ![s] = @ \ {t}]
      /\ UNCHANGED <<sessionVars, readerVars>>
  BY DEF BeatRenew, Renewable, NextBeat
<1>1. Records'
  BY DEF BeatRenew, Records, HandsOK, Renew, Renewable, NextBeat, Aborted
<1>2. Fresh'
  BY <1>a, <1>b DEF Fresh
<1>3. Refusals'
  BY <1>a, <1>b DEF Refusals, Records
<1>4. RouteNamesLiveTunnel'
  BY DEF BeatRenew, RouteNamesLiveTunnel, HandsOK, PhasesOK, Records, Fresh, Refusals,
         Answerable, Registered, Reading, Renew, Renewable, NextBeat, Aborted
<1>. QED
  BY <1>1, <1>2, <1>3, <1>4

\* Every record stays live: BeatRefused.
LEMMA LiveBeatRefused ==
    ASSUME IndInv, LiveInv, NEW s \in Sessions, BeatRefused(s)
    PROVE  LiveInv'
<1> USE NullAssumption, KeyAssumption
<1> USE DEF IndInv, TypeOK, TableTypeOK, LiveInv, sessionVars, readerVars, beatVars,
            faultVars, table
<1>1. Records'
  BY DEF BeatRefused, Records, HandsOK, NextBeat, Aborted
<1>2. Fresh'
  BY DEF BeatRefused, Fresh, HandsOK, Records, NextBeat, Aborted
<1>3. Refusals'
  BY DEF BeatRefused, Refusals, HandsOK, Records, Fresh, NextBeat, Aborted
<1>4. RouteNamesLiveTunnel'
  BY DEF BeatRefused, RouteNamesLiveTunnel, HandsOK, PhasesOK, Records, Fresh, Refusals,
         Answerable, Registered, Reading, NextBeat, Aborted
<1>. QED
  BY <1>1, <1>2, <1>3, <1>4

\* Every record stays live: BeatAborted.
LEMMA LiveBeatAborted ==
    ASSUME IndInv, LiveInv, NEW s \in Sessions, BeatAborted(s)
    PROVE  LiveInv'
<1> USE NullAssumption, KeyAssumption
<1> USE DEF IndInv, TypeOK, TableTypeOK, LiveInv, sessionVars, readerVars, beatVars,
            faultVars, table
<1>1. Records'
  BY DEF BeatAborted, Records, HandsOK, Aborted
<1>2. Fresh'
  BY DEF BeatAborted, Fresh, HandsOK, Records, Aborted
<1>3. Refusals'
  BY DEF BeatAborted, Refusals, HandsOK, Records, Fresh, Aborted
<1>4. RouteNamesLiveTunnel'
  BY DEF BeatAborted, RouteNamesLiveTunnel, HandsOK, PhasesOK, Records, Fresh, Refusals,
         Answerable, Registered, Reading, Aborted
<1>. QED
  BY <1>1, <1>2, <1>3, <1>4

\* Every record stays live: Arrive.
LEMMA LiveArrive ==
    ASSUME IndInv, LiveInv, NEW q \in Requests, NEW n \in Nodes, NEW k \in Keys, Arrive(q, n, k)
    PROVE  LiveInv'
<1> USE NullAssumption, KeyAssumption
<1> USE DEF IndInv, TypeOK, TableTypeOK, LiveInv, sessionVars, readerVars, beatVars,
            faultVars, table
<1>1. Records'
  BY DEF Arrive, Records, HandsOK
<1>2. Fresh'
  BY DEF Arrive, Fresh, HandsOK, Records
<1>3. Refusals'
  BY DEF Arrive, Refusals, HandsOK, Records, Fresh
<1>4. RouteNamesLiveTunnel'
  BY DEF Arrive, RouteNamesLiveTunnel, HandsOK, PhasesOK, Records, Fresh, Refusals,
         Answerable, Registered, Reading
<1>. QED
  BY <1>1, <1>2, <1>3, <1>4

\* Every record stays live: Lookup.
LEMMA LiveLookup ==
    ASSUME IndInv, LiveInv, NEW q \in Requests, Lookup(q)
    PROVE  LiveInv'
<1> USE NullAssumption, KeyAssumption
<1> USE DEF IndInv, TypeOK, TableTypeOK, LiveInv, sessionVars, readerVars, beatVars,
            faultVars, table
<1>1. Records'
  BY DEF Lookup, Records, HandsOK
<1>2. Fresh'
  BY DEF Lookup, Fresh, HandsOK, Records
<1>3. Refusals'
  BY DEF Lookup, Refusals, HandsOK, Records, Fresh
<1>4. RouteNamesLiveTunnel'
  BY DEF Lookup, RouteNamesLiveTunnel, HandsOK, PhasesOK, Records, Fresh, Refusals,
         Answerable, Registered, Reading
<1>. QED
  BY <1>1, <1>2, <1>3, <1>4

\* Every record stays live: RouteLocal.
LEMMA LiveRouteLocal ==
    ASSUME IndInv, LiveInv, NEW q \in Requests, RouteLocal(q)
    PROVE  LiveInv'
<1> USE NullAssumption, KeyAssumption
<1> USE DEF IndInv, TypeOK, TableTypeOK, LiveInv, sessionVars, readerVars, beatVars,
            faultVars, table
<1>1. Records'
  BY DEF RouteLocal, Records, HandsOK
<1>2. Fresh'
  BY DEF RouteLocal, Fresh, HandsOK, Records
<1>3. Refusals'
  BY DEF RouteLocal, Refusals, HandsOK, Records, Fresh
<1>4. RouteNamesLiveTunnel'
  BY DEF RouteLocal, RouteNamesLiveTunnel, HandsOK, PhasesOK, Records, Fresh, Refusals,
         Answerable, Registered, Reading
<1>. QED
  BY <1>1, <1>2, <1>3, <1>4

\* Every record stays live: RouteRemote.
LEMMA LiveRouteRemote ==
    ASSUME IndInv, LiveInv, NEW q \in Requests, RouteRemote(q)
    PROVE  LiveInv'
<1> USE NullAssumption, KeyAssumption
<1> USE DEF IndInv, TypeOK, TableTypeOK, LiveInv, sessionVars, readerVars, beatVars,
            faultVars, table
<1>1. Records'
  BY DEF RouteRemote, Records, HandsOK, Forward
<1>2. Fresh'
  BY DEF RouteRemote, Fresh, HandsOK, Records, Forward
<1>3. Refusals'
  BY DEF RouteRemote, Refusals, HandsOK, Records, Fresh, Forward
<1>4. RouteNamesLiveTunnel'
  BY DEF RouteRemote, RouteNamesLiveTunnel, HandsOK, PhasesOK, Records, Fresh, Refusals,
         Answerable, Registered, Reading, Forward
<1>. QED
  BY <1>1, <1>2, <1>3, <1>4

\* Every record stays live: Cleanup.
LEMMA LiveCleanup ==
    ASSUME IndInv, LiveInv, NEW q \in Requests, Cleanup(q)
    PROVE  LiveInv'
<1> USE NullAssumption, KeyAssumption
<1> USE DEF IndInv, TypeOK, TableTypeOK, LiveInv, sessionVars, readerVars, beatVars,
            faultVars, table
<1>a. /\ \A j \in Keys : \/ Still(j)
                         \/ owner'[j] = NoSession
      /\ tainted' = tainted
  BY ReleaseEffect DEF Cleanup, RequestsOK, Still
<1>b. UNCHANGED <<sessionVars, readerVars, beatVars>>
  BY DEF Cleanup
<1>1. Records'
  BY <1>a, <1>b DEF Still, Records
<1>2. Fresh'
  BY <1>a, <1>b DEF Still, Fresh
<1>3. Refusals'
  BY <1>a, <1>b DEF Still, Refusals
<1>4. RouteNamesLiveTunnel'
  <2> SUFFICES ASSUME NEW j \in Keys, NEW r \in Sessions \ tainted', owner'[j] = r
               PROVE  Registered(r)' /\ routeTunnel'[j] \in Answerable(r)'
    BY DEF RouteNamesLiveTunnel, Registered, Answerable
  <2>1. owner[j] = r /\ r \notin tainted /\ routeTunnel'[j] = routeTunnel[j]
    BY <1>a DEF Still
  <2>2. Registered(r) /\ routeTunnel[j] \in Answerable(r)
    BY <2>1 DEF RouteNamesLiveTunnel, Registered, Answerable
  <2>. QED
    BY <1>b, <2>1, <2>2 DEF Registered, Answerable
<1>. QED
  BY <1>1, <1>2, <1>3, <1>4

\* Every record stays live: NodeCrash.
LEMMA LiveNodeCrash ==
    ASSUME IndInv, LiveInv, NEW n \in Nodes, NodeCrash(n)
    PROVE  LiveInv'
<1> USE NullAssumption, KeyAssumption
<1> USE DEF IndInv, TypeOK, TableTypeOK, LiveInv, sessionVars, readerVars, beatVars,
            faultVars, table
<1>1. Records'
  BY DEF NodeCrash, Records, HandsOK, Registered
<1>2. Fresh'
  BY DEF NodeCrash, Fresh, HandsOK, Records, Registered
<1>3. Refusals'
  BY DEF NodeCrash, Refusals, HandsOK, Records, Fresh, Registered
<1>4. RouteNamesLiveTunnel'
  BY DEF NodeCrash, RouteNamesLiveTunnel, HandsOK, PhasesOK, Records, Fresh, Refusals,
         Answerable, Registered, Reading
<1>. QED
  BY <1>1, <1>2, <1>3, <1>4

\* Every record stays live: Tick.
LEMMA LiveTick ==
    ASSUME IndInv, LiveInv, Tick
    PROVE  LiveInv'
<1> USE NullAssumption, KeyAssumption
<1> USE DEF IndInv, TypeOK, TableTypeOK, LiveInv, sessionVars, readerVars, beatVars,
            faultVars, table
<1>1. Records'
  BY DEF Tick, Records, HandsOK, TableTick, Drop, Expiring
<1>2. Fresh'
  BY DEF Tick, Fresh, HandsOK, Records, TableTick, Drop, Expiring
<1>3. Refusals'
  BY DEF Tick, Refusals, HandsOK, Records, Fresh, TableTick, Drop, Expiring
<1>4. RouteNamesLiveTunnel'
  BY DEF Tick, RouteNamesLiveTunnel, HandsOK, PhasesOK, Records, Fresh, Refusals,
         Answerable, Registered, Reading, TableTick, Drop, Expiring
<1>. QED
  BY <1>1, <1>2, <1>3, <1>4

\* The empty table names nobody.
LEMMA LiveInit == Init => LiveInv
  BY NullAssumption
     DEF Init, TableInit, LiveInv, Records, Fresh, Refusals, RouteNamesLiveTunnel

\* Every step keeps LiveInv.
LEMMA LiveNext ==
    ASSUME IndInv, LiveInv, Next
    PROVE  LiveInv'
  BY NextCases, LiveHandshake, LiveConnectionLost, LiveRegisterTunnel, LiveCallClaim,
     LiveTunnelRegistered, LiveCloseTunnel, LiveTunnelClosed, LiveDisconnect,
     LiveTeardownRelease, LiveTeardownDone, LiveBeatStart, LiveBeatRenew, LiveBeatRefused,
     LiveBeatAborted, LiveArrive, LiveLookup, LiveRouteLocal, LiveRouteRemote, LiveCleanup,
     LiveNodeCrash, LiveTick, Zenon

\* No interleaving of registration, CloseTunnel, teardown, the heartbeat and the
\* ingress clean-up, on any number of nodes, leaves a record behind that nobody will
\* renew or release: while its session met no failed call and no crash, the record's
\* session is registered and lists, inserts or is about to release its tunnel.
THEOREM NoOrphanedRoutes == Spec => []RouteNamesLiveTunnel
<1>1. LiveInv /\ UNCHANGED vars => LiveInv'
  BY DEF LiveInv, Records, Fresh, Refusals, RouteNamesLiveTunnel, Registered, Answerable,
     vars, table, sessionVars, readerVars, beatVars, faultVars
<1>2. LiveInv => RouteNamesLiveTunnel
  BY DEF LiveInv
<1>. QED
  BY <1>1, <1>2, LiveInit, LiveNext, Invariance, PTL DEF Spec

-----------------------------------------------------------------------------
(* Punctual heartbeats keep the routes of a healthy session. *)

\* The heartbeat of s still has to renew t in this interval.
Pending(s, t) ==
    IF beat[s] = "due" \/ (beat[s] \in {"renew", "refused"} /\ t \in toRenew[s]) THEN 1 ELSE 0

\* The tunnels of s have keys of their own, and each record of theirs has the time
\* left that a renewal in every interval leaves, but for one interval per failed call.
Kept(s) ==
    /\ beat[s] # "stopped"
    /\ \A t, u \in tunnels[s] : tunnelKey[t] = tunnelKey[u] => t = u
    /\ reader[s] \in {"claim", "acquired", "release"} =>
          \A t \in tunnels[s] : tunnelKey[t] # tunnelKey[inHand[s]]
    /\ reader[s] = "acquired" =>
          owner[tunnelKey[inHand[s]]] = s /\ ttl[tunnelKey[inHand[s]]] = Ttl
    /\ \A t \in tunnels[s] :
          /\ owner[tunnelKey[t]] = s
          /\ ttl[tunnelKey[t]] + errors + Pending(s, t) >= Ttl

KeptInv ==
    \A s \in Sessions : /\ phase[s] = "new" => tunnels[s] = {}
                        /\ phase[s] = "open" => Kept(s)

\* The conditions of RouteSurvives.
Healthy == Punctual /\ ~SharedKeys /\ MaxErrors + 2 <= Ttl

\* A step leaves the tunnels and tasks of r alone.
Idle(r) ==
    /\ phase'[r] = phase[r] /\ tunnels'[r] = tunnels[r] /\ reader'[r] = reader[r]
    /\ inHand'[r] = inHand[r] /\ beat'[r] = beat[r] /\ toRenew'[r] = toRenew[r]

\* A step takes neither a record nor time from r.
Stays(r) ==
    /\ \A j \in Keys : owner[j] = r => owner'[j] = r /\ ttl'[j] \in {ttl[j], Ttl}
    /\ errors' \in {errors, errors + 1}
    /\ \A t \in Tunnels : tunnelKey[t] \in Keys => tunnelKey'[t] = tunnelKey[t]

\* The numbers Kept speaks of.
LEMMA KeptTypes ==
    ASSUME IndInv
    PROVE  /\ Ttl \in Nat /\ errors \in Nat /\ errors <= MaxErrors /\ MaxErrors \in Nat
           /\ \A k \in Keys : ttl[k] \in Nat /\ ttl[k] <= Ttl
           /\ \A s \in Sessions, t \in Tunnels : Pending(s, t) \in {0, 1}
           /\ \A s \in Sessions : \A t \in tunnels[s] : t \in Tunnels /\ tunnelKey[t] \in Keys
<1>1. errors \in 0 .. MaxErrors /\ \A k \in Keys : ttl[k] \in 0 .. Ttl
  BY DEF IndInv, TypeOK, TableTypeOK
<1>. QED
  BY <1>1, TtlAssumption, LimitAssumption DEF IndInv, TypeOK, HandsOK, Pending

\* Where neither a session nor its records change, nothing gets worse for it.
LEMMA KeptIdle ==
    ASSUME IndInv, NEW r \in Sessions, Kept(r), Idle(r), Stays(r)
    PROVE  Kept(r)'
<1>0. /\ Ttl \in Nat /\ errors \in Nat /\ \A k \in Keys : ttl[k] \in Nat /\ ttl[k] <= Ttl
      /\ \A t \in tunnels[r] : t \in Tunnels /\ tunnelKey[t] \in Keys
      /\ \A t \in Tunnels : Pending(r, t) \in {0, 1} /\ Pending(r, t)' = Pending(r, t)
  BY KeptTypes DEF Idle, Pending
<1>1. reader[r] \in {"claim", "acquired", "release"} =>
        inHand[r] \in Tunnels /\ tunnelKey[inHand[r]] \in Keys
  BY DEF IndInv, HandsOK
<1>2. ASSUME NEW t \in tunnels[r]
      PROVE  owner'[tunnelKey[t]] = r /\ ttl'[tunnelKey[t]] + errors' + Pending(r, t)' >= Ttl
  <2>1. /\ tunnelKey[t] \in Keys /\ owner[tunnelKey[t]] = r
        /\ ttl[tunnelKey[t]] + errors + Pending(r, t) >= Ttl
    BY <1>0, <1>2 DEF Kept
  <2>2. /\ owner'[tunnelKey[t]] = r /\ ttl'[tunnelKey[t]] \in {ttl[tunnelKey[t]], Ttl}
        /\ errors' \in {errors, errors + 1}
    BY <2>1 DEF Stays
  <2>. QED
    BY <1>0, <1>2, <2>1, <2>2
<1>. QED
  BY <1>0, <1>1, <1>2 DEF Kept, Idle, Stays

\* The steps of a session's tasks and connection.
SessionStep(s) == Handshake(s) \/ ConnectionLost(s) \/ ReadLoop(s) \/ Heartbeat(s)

\* The tasks of one session do not touch another, nor its records.
LEMMA OtherSession ==
    ASSUME IndInv, NEW r \in Sessions, NEW s \in Sessions \ {r}, SessionStep(s)
    PROVE  Idle(r) /\ Stays(r)
<1> USE KeyAssumption
<1> USE DEF IndInv, TypeOK, TableTypeOK, sessionVars, readerVars, beatVars, faultVars, table
<1>1. CASE Handshake(s)
  BY <1>1 DEF Handshake, Idle, Stays
<1>2. CASE ConnectionLost(s)
  BY <1>2 DEF ConnectionLost, Idle, Stays
<1>3. CASE \E k \in Keys, t \in Tunnels : RegisterTunnel(s, k, t)
  BY <1>3 DEF RegisterTunnel, Idle, Stays
<1>4. CASE TunnelRegistered(s)
  BY <1>4 DEF TunnelRegistered, Idle, Stays
<1>5. CASE \E t \in Tunnels : CloseTunnel(s, t)
  BY <1>5 DEF CloseTunnel, Idle, Stays
<1>6. CASE Disconnect(s)
  BY <1>6 DEF Disconnect, Idle, Stays
<1>7. CASE TeardownDone(s)
  BY <1>7 DEF TeardownDone, Idle, Stays
<1>8. CASE BeatStart(s)
  BY <1>8 DEF BeatStart, Idle, Stays
<1>9. CASE BeatRefused(s)
  BY <1>9 DEF BeatRefused, Idle, Stays
<1>10. CASE BeatAborted(s)
  BY <1>10 DEF BeatAborted, Idle, Stays
<1>11. CASE CallClaim(s)
  <2> DEFINE k == tunnelKey[inHand[s]]
  <2>1. Idle(r) /\ tunnelKey' = tunnelKey
    BY <1>11 DEF CallClaim, Idle
  <2>2. errors' \in {errors, errors + 1} /\ (UNCHANGED table \/ Claim(k, s, inHand[s]))
    BY <1>11 DEF CallClaim, Outcome
  <2>3. k \in Keys
    BY <1>11 DEF CallClaim, HandsOK
  <2>4. ASSUME NEW j \in Keys, owner[j] = r PROVE owner'[j] = r /\ ttl'[j] = ttl[j]
    BY <2>2, <2>3, <2>4, NullAssumption DEF Claim, Claimable
  <2>. QED
    BY <2>1, <2>2, <2>4 DEF Stays
<1>12. CASE TunnelClosed(s)
  <2>1. Idle(r) /\ tunnelKey' = tunnelKey
    BY <1>12 DEF TunnelClosed, Idle
  <2>2. inHand[s] \in Tunnels /\ tunnelKey[inHand[s]] \in Keys
    BY <1>12 DEF TunnelClosed, HandsOK
  <2>3. /\ \A j \in Keys : Still(j) \/ (owner[j] = s /\ owner'[j] = NoSession)
        /\ errors' \in {errors, errors + 1}
    BY <1>12, <2>2, CallReleases DEF TunnelClosed
  <2>. QED
    BY <2>1, <2>3 DEF Stays, Still
<1>13. CASE \E t \in Tunnels : TeardownRelease(s, t)
  <2> PICK t \in Tunnels : TeardownRelease(s, t)
    BY <1>13
  <2>1. Idle(r) /\ tunnelKey' = tunnelKey
    BY <1>13 DEF TeardownRelease, Idle
  <2>2. t \in Tunnels /\ tunnelKey[t] \in Keys
    BY <1>13 DEF TeardownRelease, HandsOK
  <2>3. /\ \A j \in Keys : Still(j) \/ (owner[j] = s /\ owner'[j] = NoSession)
        /\ errors' \in {errors, errors + 1}
    BY <1>13, <2>2, CallReleases DEF TeardownRelease
  <2>. QED
    BY <2>1, <2>3 DEF Stays, Still
<1>14. CASE \E t \in Tunnels : BeatRenew(s, t)
  <2> PICK t \in Tunnels : BeatRenew(s, t)
    BY <1>14
  <2>1. Idle(r) /\ tunnelKey' = tunnelKey
    BY DEF BeatRenew, Idle
  <2>2. errors' \in {errors, errors + 1} /\ (UNCHANGED table \/ Renew(tunnelKey[t], s))
    BY DEF BeatRenew, Outcome
  <2>3. ASSUME NEW j \in Keys, owner[j] = r PROVE owner'[j] = r /\ ttl'[j] = ttl[j]
    BY <2>2, <2>3 DEF Renew, Renewable
  <2>. QED
    BY <2>1, <2>2, <2>3 DEF Stays
<1>. QED
  BY <1>1, <1>2, <1>3, <1>4, <1>5, <1>6, <1>7, <1>8, <1>9, <1>10, <1>11, <1>12, <1>13, <1>14
     DEF SessionStep, ReadLoop, Heartbeat

\* A request does not touch an open session: the clean-up is for sessions that are
\* gone.
LEMMA OtherRequest ==
    ASSUME IndInv, NEW r \in Sessions, phase[r] = "open", NEW q \in Requests, Handle(q)
    PROVE  Idle(r) /\ Stays(r)
<1> USE DEF IndInv, TypeOK, TableTypeOK, sessionVars, readerVars, beatVars, faultVars, table
<1>1. CASE Lookup(q)
  BY <1>1 DEF Lookup, Outcome, Idle, Stays
<1>2. CASE Cleanup(q)
  <2>1. Idle(r) /\ tunnelKey' = tunnelKey
    BY <1>2 DEF Cleanup, Idle
  <2>2. /\ request[q].key \in Keys /\ request[q].found \in Sessions
        /\ phase[request[q].found] = "gone"
    BY <1>2 DEF Cleanup, RequestsOK
  <2>3. /\ errors' \in {errors, errors + 1}
        /\ UNCHANGED table \/ Release(request[q].key, request[q].found)
    BY <1>2 DEF Cleanup, Outcome
  <2>4. \A j \in Keys : Still(j) \/ owner[j] = request[q].found
    BY <2>2, <2>3, ReleaseEffect DEF Still
  <2>. QED
    BY <2>1, <2>2, <2>3, <2>4 DEF Stays, Still
<1>3. CASE RouteLocal(q) \/ RouteRemote(q) \/ \E n \in Nodes, k \in Keys : Arrive(q, n, k)
  BY <1>3 DEF RouteLocal, RouteRemote, Arrive, Idle, Stays
<1>. QED
  BY <1>1, <1>2, <1>3 DEF Handle

\* The tasks of an open session keep its own records.
LEMMA OwnStep ==
    ASSUME IndInv, Healthy, NEW r \in Sessions, phase[r] = "open", Kept(r),
           SessionStep(r), phase'[r] = "open"
    PROVE  Kept(r)'
<1> USE KeyAssumption
<1> USE DEF IndInv, TypeOK, TableTypeOK, sessionVars, readerVars, beatVars, faultVars,
            table, Kept
<1>0. /\ Ttl \in Nat /\ errors \in Nat
      /\ \A k \in Keys : ttl[k] \in Nat /\ ttl[k] <= Ttl
      /\ \A t \in Tunnels : Pending(r, t) \in {0, 1}
      /\ \A t \in tunnels[r] : t \in Tunnels /\ tunnelKey[t] \in Keys
  BY KeptTypes
<1>i. reader[r] \in {"claim", "acquired", "release"} =>
        inHand[r] \in Tunnels /\ tunnelKey[inHand[r]] \in Keys
  BY DEF HandsOK
<1>1. CASE \E k \in Keys, t \in Tunnels : RegisterTunnel(r, k, t)
  <2> PICK k \in Keys, t \in Tunnels : RegisterTunnel(r, k, t)
    BY <1>1
  <2>1. /\ reader'[r] = "claim" /\ inHand'[r] = t /\ tunnelKey'[t] = k
        /\ tunnels' = tunnels /\ owner' = owner /\ ttl' = ttl /\ errors' = errors
        /\ beat' = beat /\ toRenew' = toRenew
        /\ \A u \in tunnels[r] : tunnelKey[u] # k /\ tunnelKey'[u] = tunnelKey[u]
    BY <1>0 DEF RegisterTunnel, Healthy
  <2>2. \A u \in Tunnels : Pending(r, u)' = Pending(r, u)
    BY <2>1 DEF Pending
  <2>. QED
    BY <1>0, <2>1, <2>2
<1>2. CASE CallClaim(r)
  <2> DEFINE k == tunnelKey[inHand[r]]
  <2>1. /\ reader[r] = "claim" /\ k \in Keys /\ UNCHANGED <<tunnelKey, tunnels, beat, toRenew>>
        /\ errors' \in {errors, errors + 1}
        /\ UNCHANGED table \/ Claim(k, r, inHand[r])
    BY <1>2, <1>i DEF CallClaim, Outcome
  <2>2. \/ reader'[r] = "idle"
        \/ /\ reader'[r] = "acquired" /\ inHand'[r] = inHand[r]
           /\ Claimable(k, r) /\ Claim(k, r, inHand[r])
    BY <1>2 DEF CallClaim
  <2>3. reader'[r] = "acquired" => owner'[k] = r /\ ttl'[k] = Ttl
    BY <2>1, <2>2 DEF Claim
  <2>4. \A j \in Keys \ {k} : owner'[j] = owner[j] /\ ttl'[j] = ttl[j]
    BY <2>1 DEF Claim
  <2>5. \A t \in tunnels[r] : tunnelKey[t] \in Keys \ {k}
    BY <1>0, <2>1
  <2> HIDE DEF k
  <2>6. ASSUME NEW t \in tunnels[r]
        PROVE  owner'[tunnelKey[t]] = r /\ ttl'[tunnelKey[t]] + errors' + Pending(r, t)' >= Ttl
    <3>1. owner'[tunnelKey[t]] = r /\ ttl'[tunnelKey[t]] = ttl[tunnelKey[t]]
      BY <2>4, <2>5, <2>6
    <3>2. Pending(r, t)' = Pending(r, t)
      BY <2>1 DEF Pending
    <3>. QED
      BY <1>0, <2>1, <2>6, <3>1, <3>2
  <2>7. tunnelKey[inHand[r]] = k
    BY DEF k
  <2>. QED
    BY <2>1, <2>2, <2>3, <2>5, <2>6, <2>7
<1>3. CASE TunnelRegistered(r)
  <2>1. /\ reader[r] = "acquired" /\ reader'[r] = "idle"
        /\ tunnels'[r] = tunnels[r] \cup {inHand[r]}
        /\ UNCHANGED <<owner, ttl, tunnelKey, beat, toRenew, errors>>
    BY <1>3 DEF TunnelRegistered
  <2>2. \A u \in Tunnels : Pending(r, u)' = Pending(r, u)
    BY <2>1 DEF Pending
  <2>3. Ttl + errors + Pending(r, inHand[r]) >= Ttl
    BY <1>0, <1>i, <2>1
  <2>. QED
    BY <1>0, <1>i, <2>1, <2>2, <2>3
<1>4. CASE \E t \in Tunnels : CloseTunnel(r, t)
  <2> PICK t \in Tunnels : CloseTunnel(r, t)
    BY <1>4
  <2>1. /\ t \in tunnels[r] /\ tunnels'[r] = tunnels[r] \ {t}
        /\ reader'[r] = "release" /\ inHand'[r] = t
        /\ UNCHANGED <<owner, ttl, tunnelKey, beat, toRenew, errors>>
    BY DEF CloseTunnel
  <2>2. \A u \in Tunnels : Pending(r, u)' = Pending(r, u)
    BY <2>1 DEF Pending
  <2>. QED
    BY <1>0, <2>1, <2>2
<1>5. CASE TunnelClosed(r)
  <2> DEFINE k == tunnelKey[inHand[r]]
  <2>1. /\ reader[r] = "release" /\ reader'[r] = "idle" /\ k \in Keys
        /\ UNCHANGED <<tunnelKey, tunnels, beat, toRenew>>
    BY <1>5, <1>i DEF TunnelClosed
  <2>2. /\ \A j \in Keys : Still(j) \/ j = k
        /\ errors' \in {errors, errors + 1}
    BY <1>5, <1>i, <2>1, CallReleases DEF TunnelClosed
  <2>3. \A t \in tunnels[r] : tunnelKey[t] \in Keys \ {k}
    BY <1>0, <2>1
  <2> HIDE DEF k
  <2>4. ASSUME NEW t \in tunnels[r]
        PROVE  owner'[tunnelKey[t]] = r /\ ttl'[tunnelKey[t]] + errors' + Pending(r, t)' >= Ttl
    <3>1. owner'[tunnelKey[t]] = r /\ ttl'[tunnelKey[t]] = ttl[tunnelKey[t]]
      BY <2>2, <2>3, <2>4 DEF Still
    <3>2. Pending(r, t)' = Pending(r, t)
      BY <2>1 DEF Pending
    <3>. QED
      BY <1>0, <2>2, <2>4, <3>1, <3>2
  <2>. QED
    BY <2>1, <2>4
<1>6. CASE BeatStart(r)
  <2>1. /\ beat[r] = "due" /\ toRenew'[r] = tunnels[r]
        /\ beat'[r] = "renew" \/ (beat'[r] = "sleep" /\ tunnels[r] = {})
        /\ UNCHANGED <<owner, ttl, tunnelKey, tunnels, reader, inHand, errors>>
    BY <1>6 DEF BeatStart, NextBeat, Aborted, Reading
  <2>2. \A t \in tunnels[r] : Pending(r, t)' = 1 /\ Pending(r, t) = 1
    BY <2>1 DEF Pending
  <2>. QED
    BY <2>1, <2>2
<1>7. CASE \E t \in Tunnels : BeatRenew(r, t)
  <2> PICK t \in Tunnels : BeatRenew(r, t)
    BY <1>7
  <2> DEFINE k == tunnelKey[t]
  <2>1. /\ beat[r] = "renew" /\ t \in toRenew[r] /\ toRenew'[r] = toRenew[r] \ {t}
        /\ beat'[r] \in {"renew", "refused"} \/ (beat'[r] = "sleep" /\ toRenew[r] \ {t} = {})
        /\ UNCHANGED <<owner, tunnelKey, tunnels, reader, inHand>>
        /\ k \in Keys
    BY DEF BeatRenew, NextBeat, Aborted, Reading, Renew, HandsOK
  <2>2. \/ errors' = errors + 1 /\ ttl' = ttl
        \/ errors' \in {errors, errors + 1} /\ Renew(k, r)
    BY DEF BeatRenew, Outcome, Outcomes
  <2>3. \A j \in Keys : ttl'[j] \in {ttl[j], Ttl}
    BY <2>2 DEF Renew
  <2>4. owner[k] = r => ttl'[k] = Ttl \/ (errors' = errors + 1 /\ ttl'[k] = ttl[k])
    BY <2>1, <2>2 DEF Renew, Renewable
  <2>5. Pending(r, t) = 1 /\ \A u \in tunnels[r] \ {t} : Pending(r, u)' = Pending(r, u)
    BY <2>1 DEF Pending
  <2>p. \A u \in tunnels[r] : Pending(r, u)' \in {0, 1}
    BY DEF Pending
  <2>6. ASSUME NEW u \in tunnels[r]
        PROVE  ttl'[tunnelKey[u]] + errors' + Pending(r, u)' >= Ttl
    <3>1. /\ tunnelKey[u] \in Keys /\ owner[tunnelKey[u]] = r
          /\ ttl[tunnelKey[u]] + errors + Pending(r, u) >= Ttl /\ u \in Tunnels
      BY <1>0, <2>6
    <3>2. ttl'[tunnelKey[u]] \in {ttl[tunnelKey[u]], Ttl} /\ errors' \in {errors, errors + 1}
      BY <2>2, <2>3, <3>1
    <3>3. CASE u = t
      <4>1. \/ ttl'[tunnelKey[u]] = Ttl
            \/ errors' = errors + 1 /\ ttl'[tunnelKey[u]] = ttl[tunnelKey[u]]
        BY <2>4, <3>1, <3>3
      <4>. QED
        BY <1>0, <2>5, <2>p, <2>6, <3>1, <3>2, <3>3, <4>1
    <3>4. CASE u # t
      <4>1. Pending(r, u)' = Pending(r, u)
        BY <2>5, <2>6, <3>4
      <4>. QED
        BY <1>0, <3>1, <3>2, <4>1
    <3>. QED
      BY <3>3, <3>4
  <2>7. reader[r] = "acquired" => ttl'[tunnelKey[inHand[r]]] = Ttl
    BY <1>i, <2>3
  <2>. QED
    BY <2>1, <2>6, <2>7
<1>8. CASE BeatRefused(r)
  <2>1. /\ beat[r] = "refused" /\ tunnels'[r] \subseteq tunnels[r] /\ toRenew' = toRenew
        /\ beat'[r] = "renew" \/ (beat'[r] = "sleep" /\ toRenew[r] = {})
        /\ UNCHANGED <<owner, ttl, tunnelKey, reader, inHand, errors>>
    BY <1>8 DEF BeatRefused, NextBeat, Aborted, Reading
  <2>2. \A u \in Tunnels : Pending(r, u)' = Pending(r, u)
    BY <2>1 DEF Pending
  <2>. QED
    BY <1>0, <2>1, <2>2
<1>9. ASSUME \/ Handshake(r) \/ ConnectionLost(r) \/ Disconnect(r) \/ TeardownDone(r)
             \/ BeatAborted(r) \/ \E t \in Tunnels : TeardownRelease(r, t)
      PROVE  FALSE
  BY <1>9
     DEF Handshake, ConnectionLost, Disconnect, TeardownDone, BeatAborted, Aborted, Reading,
     TeardownRelease, PhasesOK
<1>. QED
  BY <1>1, <1>2, <1>3, <1>4, <1>5, <1>6, <1>7, <1>8, <1>9
     DEF SessionStep, ReadLoop, Heartbeat

\* An interval passes: no record of a healthy session is in its last one.
LEMMA TickStep ==
    ASSUME IndInv, Healthy, NEW r \in Sessions, phase[r] = "open", Kept(r), Tick
    PROVE  Kept(r)'
<1>0. /\ Ttl \in Nat /\ errors \in Nat /\ errors <= MaxErrors /\ MaxErrors \in Nat
      /\ \A k \in Keys : ttl[k] \in Nat /\ ttl[k] <= Ttl
      /\ \A t \in tunnels[r] : t \in Tunnels /\ tunnelKey[t] \in Keys
  BY KeptTypes
<1>1. /\ beat[r] = "sleep" /\ reader[r] # "acquired"
  BY DEF Tick, Settled, Healthy, Kept
<1>2. /\ beat'[r] = "due"
      /\ UNCHANGED <<tunnelKey, tunnels, reader, inHand, toRenew, errors>>
  BY <1>1 DEF Tick, IndInv, TypeOK, sessionVars, readerVars, faultVars
<1>3. \A k \in Keys : ttl[k] > 1 => owner'[k] = owner[k] /\ ttl'[k] = ttl[k] - 1
  BY <1>0 DEF Tick, TableTick, Drop, Expiring
<1>4. ASSUME NEW t \in tunnels[r]
      PROVE  owner'[tunnelKey[t]] = r /\ ttl'[tunnelKey[t]] + errors' + Pending(r, t)' >= Ttl
  <2>1. Pending(r, t) = 0 /\ Pending(r, t)' = 1
    BY <1>1, <1>2 DEF Pending
  <2>2. /\ tunnelKey[t] \in Keys /\ owner[tunnelKey[t]] = r
        /\ ttl[tunnelKey[t]] + errors >= Ttl /\ ttl[tunnelKey[t]] \in Nat
    BY <1>0, <1>4, <2>1 DEF Kept
  <2>3. ttl[tunnelKey[t]] > 1
    BY <1>0, <2>2 DEF Healthy
  <2>4. owner'[tunnelKey[t]] = r /\ ttl'[tunnelKey[t]] = ttl[tunnelKey[t]] - 1
    BY <1>3, <2>2, <2>3
  <2>. QED
    BY <1>0, <1>2, <2>1, <2>2, <2>4
<1>. QED
  BY <1>1, <1>2, <1>4 DEF Kept

\* While calls succeed, every step keeps the records of all open sessions.
LEMMA KeptNext ==
    ASSUME IndInv, Healthy, KeptInv, Next
    PROVE  KeptInv'
<1>1. ASSUME NEW r \in Sessions, phase'[r] = "new" PROVE tunnels'[r] = {}
  <2>1. ASSUME NEW s \in Sessions, SessionStep(s) PROVE tunnels'[r] = {}
    <3>1. CASE s # r
      BY <1>1, <2>1, <3>1, OtherSession DEF Idle, KeptInv
    <3>2. CASE s = r
      <4>1. reader[r] \in {"idle", "claim", "acquired", "release"} => phase[r] # "new"
        BY DEF IndInv, PhasesOK, Reading
      <4>2. phase[r] = "new" /\ (tunnels' = tunnels \/ BeatRefused(r))
        BY <1>1, <2>1, <3>2, <4>1
        DEF SessionStep, ReadLoop, Heartbeat, Handshake, ConnectionLost, RegisterTunnel, CallClaim,
            TunnelRegistered, CloseTunnel, TunnelClosed, Disconnect, TeardownRelease, TeardownDone,
            BeatStart, BeatRenew, BeatAborted, BeatRefused, IndInv, TypeOK, sessionVars
      <4>3. tunnels[r] = {} /\ tunnels'[r] \subseteq tunnels[r]
        BY <4>2 DEF KeptInv, BeatRefused, IndInv, TypeOK
      <4>. QED
        BY <4>3
    <3>. QED
      BY <3>1, <3>2
  <2>2. CASE (\E q \in Requests : Handle(q)) \/ Tick
    <3>1. UNCHANGED <<phase, tunnels>>
      BY <2>2
         DEF Handle, Arrive, Lookup, RouteLocal, RouteRemote, Cleanup, Tick, sessionVars
    <3>. QED
      BY <1>1, <3>1 DEF KeptInv
  <2>3. CASE \E n \in Nodes : NodeCrash(n)
    BY <1>1, <2>3 DEF NodeCrash, KeptInv, IndInv, TypeOK
  <2>. QED
    BY <2>1, <2>2, <2>3 DEF Next, SessionStep
<1>2. ASSUME NEW r \in Sessions, phase'[r] = "open" PROVE Kept(r)'
  <2>1. CASE Handshake(r)
    <3>1. /\ beat'[r] = "sleep" /\ reader'[r] = "idle" /\ tunnels'[r] = {}
      BY <2>1 DEF Handshake, KeptInv, IndInv, TypeOK
    <3>. QED
      BY <3>1 DEF Kept
  <2>2. CASE ~Handshake(r)
    <3>1. ASSUME NEW s \in Sessions \ {r}, SessionStep(s) PROVE Kept(r)'
      <4>1. Idle(r) /\ Stays(r)
        BY <3>1, OtherSession
      <4>2. Kept(r)
        BY <1>2, <4>1 DEF KeptInv, Idle
      <4>. QED
        BY <4>1, <4>2, KeptIdle
    <3>2. ASSUME SessionStep(r) PROVE Kept(r)'
      <4>1. phase[r] = "open"
        BY <1>2, <2>2, <3>2
        DEF SessionStep, ReadLoop, Heartbeat, ConnectionLost, RegisterTunnel, CallClaim,
            TunnelRegistered, CloseTunnel, TunnelClosed, Disconnect, TeardownRelease, TeardownDone,
            BeatStart, BeatRenew, BeatAborted, BeatRefused, IndInv, TypeOK, sessionVars
      <4>. QED
        BY <1>2, <3>2, <4>1, OwnStep DEF KeptInv
    <3>3. ASSUME NEW q \in Requests, Handle(q) PROVE Kept(r)'
      <4>1. phase[r] = "open"
        BY <1>2, <3>3
           DEF Handle, Arrive, Lookup, RouteLocal, RouteRemote, Cleanup, sessionVars
      <4>. QED
        BY <3>3, <4>1, OtherRequest, KeptIdle DEF KeptInv
    <3>4. CASE Tick
      BY <1>2, <3>4, TickStep DEF KeptInv, Tick, sessionVars
    <3>5. ASSUME NEW n \in Nodes, NodeCrash(n) PROVE Kept(r)'
      <4>1. Idle(r) /\ Stays(r)
        BY <1>2, <3>5 DEF NodeCrash, Idle, Stays, IndInv, TypeOK, table
      <4>2. Kept(r)
        BY <1>2, <4>1 DEF KeptInv, Idle
      <4>. QED
        BY <4>1, <4>2, KeptIdle
    <3>. QED
      BY <3>1, <3>2, <3>3, <3>4, <3>5 DEF Next, SessionStep
  <2>. QED
    BY <2>1, <2>2
<1>. QED
  BY <1>1, <1>2 DEF KeptInv

\* While heartbeats are punctual and fewer than Ttl - 1 registry calls fail, no route
\* of a connected session lapses or goes to another, whatever else happens on the
\* nodes: route_ttl leaves room for every slow or failed renewal it is meant for.
THEOREM HealthyRoutesSurvive == Spec => []RouteSurvives
<1>1. Init => KeptInv
  BY DEF Init, KeptInv
<1>2. IndInv /\ (Healthy => KeptInv) /\ [Next]_vars => (Healthy => KeptInv)'
  <2> SUFFICES ASSUME IndInv, Healthy, KeptInv, [Next]_vars PROVE KeptInv'
    BY DEF Healthy
  <2>1. CASE UNCHANGED vars
    BY <2>1
       DEF KeptInv, Kept, Pending, vars, table, sessionVars, readerVars, beatVars, faultVars
  <2>. QED
    BY <2>1, KeptNext
<1>3. (Healthy => KeptInv) => RouteSurvives
  BY DEF Healthy, KeptInv, Kept, RouteSurvives
<1>. QED
  BY <1>1, <1>2, <1>3, Invariance, PTL DEF Spec

-----------------------------------------------------------------------------
(* Hand-over between nodes. *)

\* A request leaves the node it came in at once at most, however the record moves
\* between the lookups: the HOP_HEADER test ends every second attempt in a 508.
THEOREM HandedOverOnce == Spec => []OneHop
<1>1. Init => OneHop
  BY DEF Init, OneHop
<1>2. IndInv /\ OneHop /\ [Next]_vars => OneHop'
  <2> SUFFICES ASSUME IndInv, OneHop, [Next]_vars PROVE OneHop'
    OBVIOUS
  <2> USE DEF IndInv, TypeOK
  <2>1. ASSUME NEW q \in Requests, Handle(q) PROVE OneHop'
    <3>1. /\ request[q] \in RequestStates
          /\ \A p \in Requests : request[p].hops <= 1
      BY DEF OneHop
    <3>2. \A p \in Requests \ {q} : request'[p] = request[p]
      BY <2>1 DEF Handle, Arrive, Lookup, RouteLocal, RouteRemote, Forward, Cleanup
    <3>3. \/ request'[q].hops = request[q].hops
          \/ request'[q].hops = 0
          \/ ~(request[q].hops > 0) /\ request'[q].hops = request[q].hops + 1
      <4>1. CASE Lookup(q)
        <5>1. PICK st, f : request' = [request EXCEPT ![q].step = st, ![q].found = f]
          BY <4>1 DEF Lookup
        <5>. QED
          BY <3>1, <5>1 DEF RequestStates
      <4>2. CASE RouteLocal(q) \/ Cleanup(q)
        <5>1. PICK st : request' = [request EXCEPT ![q].step = st]
          BY <4>2 DEF RouteLocal, Cleanup
        <5>. QED
          BY <3>1, <5>1 DEF RequestStates
      <4>3. CASE RouteRemote(q)
        <5>1. CASE request[q].hops > 0
          BY <3>1, <4>3, <5>1 DEF RouteRemote, RequestStates
        <5>2. CASE ~(request[q].hops > 0)
          BY <3>1, <4>3, <5>2 DEF RouteRemote, Forward, RequestStates
        <5>. QED
          BY <5>1, <5>2
      <4>4. CASE \E n \in Nodes, k \in Keys : Arrive(q, n, k)
        BY <4>4 DEF Arrive
      <4>. QED
        BY <2>1, <4>1, <4>2, <4>3, <4>4 DEF Handle
    <3>4. request[q].hops \in Nat
      BY <3>1 DEF RequestStates
    <3>. QED
      BY <3>1, <3>2, <3>3, <3>4 DEF OneHop
  <2>2. ASSUME NEW n \in Nodes, NodeCrash(n) PROVE OneHop'
    BY <2>2 DEF OneHop, NodeCrash, RequestStates
  <2>3. CASE UNCHANGED request
    BY <2>3 DEF OneHop
  <2>4. ASSUME NEW s \in Sessions, SessionStep(s) PROVE UNCHANGED request
    BY <2>4
       DEF SessionStep, ReadLoop, Heartbeat, Handshake, ConnectionLost, RegisterTunnel,
           CallClaim,
       TunnelRegistered, CloseTunnel, TunnelClosed, Disconnect, TeardownRelease, TeardownDone,
       BeatStart, BeatRenew, BeatAborted, BeatRefused
  <2>5. Tick \/ UNCHANGED vars => UNCHANGED request
    BY DEF Tick, vars
  <2>. QED
    BY <2>1, <2>2, <2>3, <2>4, <2>5 DEF Next, SessionStep
<1>. QED
  BY <1>1, <1>2, Invariance, PTL DEF Spec
=============================================================================
