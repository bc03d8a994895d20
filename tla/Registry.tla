------------------------------ MODULE Registry ------------------------------
(***************************************************************************)
(* The shared routing table: routing key -> the session that serves it.    *)
(*                                                                         *)
(* Source: crates/norupo-core/src/registry.rs.  MemoryRegistry runs every  *)
(* operation under one mutex and RedisRegistry as one Lua script, so each  *)
(* is a single step here.  A record is kept as three functions of the key: *)
(* the owning session, the tunnel id it names and the time left to live.   *)
(* Its node field is a function of the session (Home in ControlPlane), and *)
(* nothing reads its account field.                                        *)
(***************************************************************************)
EXTENDS Naturals

CONSTANTS
    Keys,        \* routing keys: normalised host names
    Sessions,    \* session ids; ids::session_id() never repeats one
    Tunnels,     \* tunnel ids; ids::tunnel_id() never repeats one
    Ttl,         \* route_ttl(), in heartbeat intervals
    NoSession,   \* owner of a free key
    NoTunnel     \* tunnel id of a free key

ASSUME TtlAssumption == Ttl \in Nat \ {0}
ASSUME NullAssumption == NoSession \notin Sessions /\ NoTunnel \notin Tunnels

VARIABLES
    owner,       \* session_id of the key's record, or NoSession
    routeTunnel, \* tunnel_id of the key's record
    ttl          \* heartbeat intervals until the record expires

table == <<owner, routeTunnel, ttl>>

TableTypeOK ==
    /\ owner \in [Keys -> Sessions \cup {NoSession}]
    /\ routeTunnel \in [Keys -> Tunnels \cup {NoTunnel}]
    /\ ttl \in [Keys -> 0 .. Ttl]

TableInit ==
    /\ owner = [k \in Keys |-> NoSession]
    /\ routeTunnel = [k \in Keys |-> NoTunnel]
    /\ ttl = [k \in Keys |-> 0]

-----------------------------------------------------------------------------
(* Mutants of the operations below. *)

\* the CLAIM script without its ownership test
Claimable_NoOwnerCheck(k, s) == k \in Keys /\ s \in Sessions

\* the RELEASE script without its ownership test
ReleasedBy_NoOwnerCheck(k, s) == owner[k] # NoSession /\ s \in Sessions

\* the RENEW script without its ownership test
Renewable_NoOwnerCheck(k, s) == owner[k] # NoSession /\ s \in Sessions

\* the RENEW script without its PEXPIRE
Renew_NoExpire(k, s) == k \in Keys /\ s \in Sessions /\ UNCHANGED table

\* the RENEW script adding to the time left
Renew_Adds(k, s) ==
    IF owner[k] = s
    THEN ttl' = [ttl EXCEPT ![k] = @ + Ttl] /\ UNCHANGED <<owner, routeTunnel>>
    ELSE UNCHANGED table

-----------------------------------------------------------------------------
\* The claim is granted: the key is free, or already held by this session.
Claimable(k, s) == owner[k] \in {NoSession, s}

\* claim: write the record with a full TTL when granted, else change nothing
\* (Claim::Taken).
Claim(k, s, t) ==
    IF Claimable(k, s)
    THEN /\ owner' = [owner EXCEPT ![k] = s]
         /\ routeTunnel' = [routeTunnel EXCEPT ![k] = t]
         /\ ttl' = [ttl EXCEPT ![k] = Ttl]
    ELSE UNCHANGED table

\* renew answers true: the record exists and is this session's.
Renewable(k, s) == owner[k] = s

\* renew: push the expiry out, record untouched.
Renew(k, s) ==
    IF Renewable(k, s)
    THEN ttl' = [ttl EXCEPT ![k] = Ttl] /\ UNCHANGED <<owner, routeTunnel>>
    ELSE UNCHANGED table

\* release would delete the record: only its owner's.
ReleasedBy(k, s) == owner[k] = s

\* Delete the records of the keys in K.
Drop(K) ==
    /\ owner' = [k \in Keys |-> IF k \in K THEN NoSession ELSE owner[k]]
    /\ routeTunnel' = [k \in Keys |-> IF k \in K THEN NoTunnel ELSE routeTunnel[k]]

\* release: delete the record iff it is this session's.
Release(k, s) ==
    IF ReleasedBy(k, s)
    THEN Drop({k}) /\ ttl' = [ttl EXCEPT ![k] = 0]
    ELSE UNCHANGED table

\* The record's time is up when the current interval ends.
Expiring(k) == owner[k] # NoSession /\ ttl[k] = 1

\* One heartbeat interval passes: evict_expired, or Redis' own PX expiry.
TableTick ==
    /\ Drop({k \in Keys : Expiring(k)})
    /\ ttl' = [k \in Keys |-> IF ttl[k] = 0 THEN 0 ELSE ttl[k] - 1]
=============================================================================
