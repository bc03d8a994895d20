----------------------------- MODULE RouteNames -----------------------------
(***************************************************************************)
(* Routing keys: what a tunnel is registered under and what a visitor's    *)
(* Host header is looked up as (routing.rs, resolve_http_target and        *)
(* resolve_tcp_target), who may have which name (auth.rs) and the text     *)
(* form of a routing record (RouteRecord::encode and decode, and the       *)
(* pattern by which the Lua scripts find the owner).                       *)
(*                                                                         *)
(* Text is a sequence of symbols.  A symbol is a character, or a run of    *)
(* letters that the code treats as a whole: "tcp" and "xn".  One letter,   *)
(* "n", has an upper case, "N".  The empty sequence stands for Err: no     *)
(* operation returns an empty name.                                        *)
(***************************************************************************)
EXTENDS Integers, SequencesExt

CONSTANTS
    BaseDomain,   \* --base-domain, as the operator wrote it
    Reserved,     \* RESERVED_SUBDOMAINS
    Principals,   \* records with the names granted to an account
    RandomLen,    \* GENERATED_SUBDOMAIN_LEN
    MaxLabel,     \* MAX_LABEL_LEN
    MaxHost,      \* 253
    MaxPort,      \* u16::MAX
    RemotePorts,  \* values of TcpTunnelSpec::remote_port
    MaxLen        \* bound on the text an agent sends

\* "impossible at 12 characters" (random_subdomain)
ASSUME RandomAssumption == RandomLen \in Nat /\ \A label \in Reserved : Len(label) # RandomLen

VARIABLES
    principal,    \* the account of the session
    text,         \* the name the agent asks for, as typed so far
    ask,          \* what it asked for: "none", "subdomain", "custom", "random", "tcp"
    key,          \* the routing key of its tunnel, <<>> when refused
    host          \* the Host header of a visitor

vars == <<principal, text, ask, key, host>>

Lower == {"n", "xn", "tcp"}
Digits == {"1"}
Tab == "\t"
Blanks == {" ", Tab}
NonAscii == {"e'"}
Alphabet == Lower \cup {"N"} \cup Digits \cup Blanks \cup NonAscii
            \cup {"-", ".", ":", "[", "]"}

\* The configuration is text too; only grants have wildcards.
ASSUME TextAssumption ==
    /\ BaseDomain \in Seq(Alphabet)
    /\ \A p \in Principals : p.domains \subseteq Seq(Alphabet \cup {"*"})

ASSUME BoundAssumption == MaxLen \in Nat

\* RESERVED_SUBDOMAINS is written the way valid labels are.
LabelSymbols == Lower \cup Digits \cup {"-"}

ASSUME ReservedAssumption == Reserved \subseteq Seq(LabelSymbols)

Err == <<>>
Punycode == <<"xn", "-", "-">>
RandomAlphabet == {"n", "tcp"}

-----------------------------------------------------------------------------
(* Text *)

Positions(s, S) == {i \in DOMAIN s : s[i] \in S}

\* str::trim
Trim(s) ==
    LET kept == Positions(s, Alphabet \ Blanks)
    IN IF kept = {} THEN <<>> ELSE SubSeq(s, Min(kept), Max(kept))

\* str::trim_end_matches('.')
TrimDots(s) == SubSeq(s, 1, Max({0} \cup Positions(s, Alphabet \ {"."})))

ToLower(s) == [i \in DOMAIN s |-> IF s[i] = "N" THEN "n" ELSE s[i]]

All(s, S) == \A i \in DOMAIN s : s[i] \in S

\* str::strip_suffix, with the empty sequence for None
StripSuffix(s, t) == IF IsSuffix(t, s) THEN SubSeq(s, 1, Len(s) - Len(t)) ELSE <<>>

-----------------------------------------------------------------------------
(* routing.rs *)

\* mutant: the port begins at the last colon
WithoutPort_LastColon(s) ==
    LET colon == Positions(s, {":"})
    IN IF colon = {} THEN s
       ELSE IF All(SubSeq(s, Max(colon) + 1, Len(s)), Digits)
            THEN SubSeq(s, 1, Max(colon) - 1) ELSE Err

\* The port goes; an address in brackets keeps its colons, and nothing after it.
WithoutPort(s) ==
    LET colon == Positions(s, {":"})
        close == Positions(s, {"]"})
    IN CASE s # <<>> /\ Head(s) = "[" ->
              IF close = {} THEN Err ELSE SubSeq(s, 1, Min(close))
         [] s # <<>> /\ Head(s) # "[" /\ colon # {} ->
              IF All(SubSeq(s, Min(colon) + 1, Len(s)), Digits)
              THEN SubSeq(s, 1, Min(colon) - 1) ELSE Err
         [] OTHER -> s

\* mutant: case is kept
NormalizeHost_KeepsCase(raw) == TrimDots(WithoutPort(Trim(raw)))

\* mutant: the root dot is looked for before the port is gone
NormalizeHost_DotFirst(raw) == ToLower(WithoutPort(TrimDots(Trim(raw))))

NormalizeHost(raw) ==
    LET name == TrimDots(WithoutPort(Trim(raw)))
    IN IF All(name, Alphabet \ NonAscii) /\ Len(name) <= MaxHost THEN ToLower(name) ELSE Err

IsReserved(label) == label \in Reserved

ValidateSubdomainSyntax(raw) ==
    LET label == ToLower(Trim(raw))
    IN IF /\ label # <<>> /\ Len(label) <= MaxLabel
          /\ All(label, LabelSymbols)
          /\ Head(label) # "-" /\ Last(label) # "-"
          /\ ~IsPrefix(Punycode, label)
       THEN label ELSE Err

PublicHost(raw) ==
    LET label == ValidateSubdomainSyntax(raw)
        base == NormalizeHost(BaseDomain)
        name == label \o <<".">> \o base
    IN IF label # Err /\ base # Err /\ Len(name) <= MaxHost THEN name ELSE Err

\* mutant: the last symbol before the base domain need not be a dot
SubdomainOf_AnyChild(raw) == StripSuffix(NormalizeHost(raw), NormalizeHost(BaseDomain))

\* Direct children of the base domain only.
SubdomainOf(raw) ==
    LET label == StripSuffix(NormalizeHost(raw), <<".">> \o NormalizeHost(BaseDomain))
    IN IF Contains(label, ".") THEN Err ELSE label

\* random_subdomain
RandomSubdomains == [1 .. RandomLen -> RandomAlphabet]

\* Display for RoutingKey::TcpPort
TcpKey(port) == <<"tcp", ":", ToString(port)>>

-----------------------------------------------------------------------------
(* auth.rs *)

MayClaimSubdomain(p, label) == \E g \in p.subdomains : ToLower(g) = label

\* mutant: a wildcard covers every name that ends like it
Covers_Loosely(g, domain) == IsSuffix(SubSeq(g, 3, Len(g)), domain) \/ ToLower(g) = domain

\* One entry of custom_domains.  A wildcard is compared as it is written.
Covers(g, domain) ==
    IF IsPrefix(<<"*", ".">>, g)
    THEN LET head == StripSuffix(domain, SubSeq(g, 3, Len(g)))
         IN Len(head) > 1 /\ Last(head) = "."
    ELSE ToLower(g) = domain

MayUseCustomDomain(p, domain) == \E g \in p.domains : Covers(g, domain)

-----------------------------------------------------------------------------
(* RouteRecord *)

\* The fields besides the key; none of them contains a tab.
NodeId    == <<"n">>
NodeAddr  == <<"1", ":", "1">>
SessionId == <<"n", "1">>
TunnelId  == <<"tcp">>
AccountId == <<"xn">>

Record(k) == <<k, NodeId, NodeAddr, SessionId, TunnelId, AccountId>>

\* mutant: fields are separated by a colon
Then_Colon(field, rest) == field \o <<":">> \o rest

\* One field of the text, and what follows it.
Then(field, rest) == field \o <<Tab>> \o rest

Encode(r) == Then(r[1], Then(r[2], Then(r[3], Then(r[4], Then(r[5], r[6])))))

\* str::split('\t')
Fields(s) ==
    LET tabs == Positions(s, {Tab})
        Number(i) == 1 + Cardinality({t \in tabs : t < i})
        Of(n) == {i \in DOMAIN s \ tabs : Number(i) = n}
    IN [n \in 1 .. Cardinality(tabs) + 1 |->
           IF Of(n) = {} THEN <<>> ELSE SubSeq(s, Min(Of(n)), Max(Of(n)))]

\* The first six fields; what follows is ignored.
Decode(s) == IF Len(Fields(s)) >= 6 THEN SubSeq(Fields(s), 1, 6) ELSE Err

\* string.match(current, ..) of the Lua scripts: the fourth field
OwnerOf(s) == IF Len(Fields(s)) >= 4 THEN Fields(s)[4] ELSE Err

-----------------------------------------------------------------------------
\* Keys of HTTP tunnels are in lower case and ASCII.
KeySymbols == Alphabet \ ({"N"} \cup NonAscii)

TypeOK ==
    /\ principal \in Principals
    /\ text \in Seq(Alphabet) /\ Len(text) <= MaxLen
    /\ ask \in {"none", "subdomain", "custom", "random", "tcp"}
    /\ IF ask = "tcp" THEN key \in {Err} \cup {TcpKey(port) : port \in RemotePorts}
                     ELSE key \in Seq(KeySymbols)
    /\ host \in Seq(Alphabet)

Init ==
    /\ principal \in Principals
    /\ text = <<>> /\ ask = "none" /\ key = Err /\ host = <<>>

\* The agent's user types one more symbol.
Type(c) ==
    /\ ask = "none" /\ Len(text) < MaxLen
    /\ text' = Append(text, c)
    /\ UNCHANGED <<principal, ask, key, host>>

\* register_tunnel with the given kind of name: it gets the key or is refused.
Registered(kind, k) ==
    /\ ask = "none"
    /\ ask' = kind /\ key' = k /\ text' = <<>>
    /\ UNCHANGED <<principal, host>>

\* mutant: the reserved list is compared with the text as it was sent
OpenSubdomain_AsSent ==
    /\ text # <<>>
    /\ LET allowed == IsReserved(text) => MayClaimSubdomain(principal, text)
       IN Registered("subdomain", IF allowed THEN PublicHost(text) ELSE Err)

\* resolve_http_target: a subdomain ...
OpenSubdomain ==
    /\ text # <<>>
    /\ LET label == ValidateSubdomainSyntax(text)
           allowed == IsReserved(label) => MayClaimSubdomain(principal, label)
       IN Registered("subdomain", IF label # Err /\ allowed THEN PublicHost(label) ELSE Err)

\* ... a custom domain ...
OpenCustomDomain ==
    /\ text # <<>>
    /\ LET domain == NormalizeHost(text)
           allowed == domain # Err /\ MayUseCustomDomain(principal, domain)
       IN Registered("custom", IF allowed THEN domain ELSE Err)

\* ... or any free name.
OpenRandom ==
    /\ text = <<>>
    /\ \E label \in RandomSubdomains : Registered("random", PublicHost(label))

\* resolve_tcp_target: the u32 must be a u16, and not 0.
OpenTcp ==
    /\ text = <<>>
    /\ \E port \in RemotePorts :
          Registered("tcp", IF port \in 1 .. MaxPort THEN TcpKey(port) ELSE Err)

\* External: the ways in which clients write a host name: in either case, with a
\* root dot, with a port, with blanks around it.
Leading  == {<<>>, <<" ">>}
Trailing == {<<>>, <<Tab>>}
RootDots == {<<>>, <<".">>}
Ports    == {<<>>, <<":">>, <<":", "1">>}

EitherCase(name) ==
    {[i \in DOMAIN name |-> IF i \in upper THEN "N" ELSE name[i]] :
        upper \in SUBSET Positions(name, {"n"})}

Spelling(before, written, dot, port, after) == before \o written \o dot \o port \o after

Spellings(name) ==
    {Spelling(before, written, dot, port, after) :
        before \in Leading, written \in EitherCase(name), dot \in RootDots,
        port \in Ports, after \in Trailing}

\* A visitor requests a name the agent was given (request_host).
Visit ==
    /\ ask \in {"subdomain", "custom", "random"} /\ key # Err /\ host = <<>>
    /\ host' \in Spellings(key)
    /\ UNCHANGED <<principal, text, ask, key>>

Next ==
    \/ \E c \in Alphabet : Type(c)
    \/ OpenSubdomain \/ OpenCustomDomain \/ OpenRandom \/ OpenTcp
    \/ Visit

Spec == Init /\ [][Next]_vars

-----------------------------------------------------------------------------
(* Properties. *)

\* "the key produced when a tunnel is registered must be byte-identical to the key
\* derived from an inbound request's Host header" (routing.rs): whatever the agent
\* asked for and however the visitor writes it, the lookup finds the tunnel.
VisitorsFindTunnel == host # <<>> => NormalizeHost(host) = key

\* No Host header at all is looked up as the key of a TCP tunnel.
TcpKeysApart == \A port \in 1 .. MaxPort : NormalizeHost(text) # TcpKey(port)

\* A grant of a custom domain that reaches k below the base domain: k itself, or a
\* wildcard for the base domain or for a domain above that.
ReachesBelow(g, k) ==
    LET tail == <<".">> \o NormalizeHost(BaseDomain)
    IN \/ ToLower(g) = k
       \/ \E i \in DOMAIN tail : tail[i] = "." /\ <<"*">> \o SubSeq(tail, i, Len(tail)) = g

\* Reserved names go to accounts that were granted them, however they are asked for and
\* written.  resolve_http_target does not compare custom domains with the reserved list,
\* so there is one way around it, and no other: asking for the name as a custom domain
\* with a grant that reaches below the base domain.
ReservedGuarded ==
    \A label \in Reserved : key # Err /\ key = PublicHost(label) =>
        \/ \E g \in principal.subdomains : ToLower(g) = label
        \/ ask = "custom" /\ \E g \in principal.domains : ReachesBelow(g, key)

\* A custom domain is one the account was granted, or a name below a granted
\* wildcard: its last labels are the wildcard's, and there are more.
CustomDomainsGranted ==
    ask = "custom" /\ key # Err =>
        \E g \in principal.domains :
            \/ ToLower(g) = key
            \/ \E i \in 2 .. Len(key) :
                  key[i] = "." /\ <<"*">> \o SubSeq(key, i, Len(key)) = g

\* subdomain_of gives back the label that public_host made a name from, and finds one in
\* a custom domain only if a grant reaches below the base domain.
NamesToldApart ==
    /\ ask \in {"subdomain", "random"} /\ key # Err =>
          SubdomainOf(key) # Err /\ PublicHost(SubdomainOf(key)) = key
    /\ ask = "custom" /\ key # Err /\ SubdomainOf(key) # Err =>
          \E g \in principal.domains : ReachesBelow(g, key)

\* The record of every key without a tab survives the table, and the Lua scripts
\* find its session in it.
RecordSurvives ==
    key # Err /\ ~Contains(key, Tab) =>
        LET stored == Encode(Record(key))
        IN Decode(stored) = Record(key) /\ OwnerOf(stored) = SessionId
=============================================================================
