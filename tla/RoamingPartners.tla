--------------------------- MODULE RoamingPartners ---------------------------
(* Onboarding a roaming partner: the operator creates it and hands its token_a *)
(* over out of band, the partner trades token_a for a token_c at a version of  *)
(* its choice (negotiate_credentials), and token_c is what it is known by from *)
(* then on (authenticate_partner).  The registry is in memory: a handler is    *)
(* one step, and a restart of the edge empties it.  A handshake's answer may   *)
(* be lost, or overtaken by a later one's.                                     *)
EXTENDS Naturals

CONSTANTS
    Parties,         \* partners
    Handshakes,      \* credentials requests that may be under way at once
    AskedVersions,   \* versions partners ask for
    MaxSecrets       \* bound: tokens made with token_urlsafe

ASSUME RoamingPartnersAssumption == MaxSecrets \in Nat /\ "none" \notin Parties

VARIABLES
    registered,  \* InMemoryPartnerRegistry: [status, tokenA, tokenC, version] of each partner
    secrets,     \* tokens made so far; each is new
    handed,      \* the token_a each partner was given last
    shake,       \* the handshakes under way: [pc, party, tokenA, version, tokenC]
    held,        \* the credentials each partner received last: [tokenC, version]
    astray       \* partners an answer to whom was lost or crossed another's, until a later
                 \* handshake went through by itself

rpVars == <<registered, secrets, handed, shake, held, astray>>

SupportedVersions == {"2.1.1", "2.2.1", "2.3.0"}
NotOnboarded == [status |-> "absent", tokenA |-> 0, tokenC |-> 0, version |-> "none"]
NoShake == [pc |-> "idle", party |-> "none", tokenA |-> 0, version |-> "none", tokenC |-> 0, alone |-> TRUE]
NothingHeld == [tokenC |-> 0, version |-> "none"]

RpTypeOK ==
    /\ registered \in [Parties -> [status: {"absent", "pending", "connected"}, tokenA: 0..MaxSecrets,
                                   tokenC: 0..MaxSecrets, version: SupportedVersions \cup {"none"}]]
    /\ secrets \in 0..MaxSecrets /\ handed \in [Parties -> 0..MaxSecrets]
    /\ \A h \in Handshakes : shake[h].pc \in {"idle", "sent", "served", "refused"}
    /\ held \in [Parties -> [tokenC: 0..MaxSecrets, version: SupportedVersions \cup {"none"}]]
    /\ astray \subseteq Parties

RpInit ==
    /\ registered = [p \in Parties |-> NotOnboarded]
    /\ secrets = 0
    /\ handed = [p \in Parties |-> 0]
    /\ shake = [h \in Handshakes |-> NoShake]
    /\ held = [p \in Parties |-> NothingHeld]
    /\ astray = {}

------------------------------------------------------------------------------
\* find_by_token_a and find_by_token_c: the partner that has the token.
ByTokenA(t) == {p \in Parties : registered[p].status # "absent" /\ registered[p].tokenA = t}
ByTokenC(t) == {p \in Parties : registered[p].status # "absent" /\ registered[p].tokenC = t}

\* authenticate_partner: the partners a bearer token stands for, none being UNKNOWN_TOKEN.
AuthenticatePartner(t) == ByTokenC(t)

Under(p) == {h \in Handshakes : shake[h].party = p}

\* POST /admin/ocpi/partners: token_a is made by the route and shown this once.
CreatePartner(p) ==
    /\ registered[p].status = "absent" /\ secrets < MaxSecrets
    /\ secrets' = secrets + 1
    /\ registered' = [registered EXCEPT ![p] = [NotOnboarded EXCEPT !.status = "pending", !.tokenA = secrets']]
    /\ UNCHANGED <<handed, shake, held, astray>>

\* Variant: the partner's session goes with its token_a.
RotatedAway(p, t) == [registered EXCEPT ![p].tokenA = t, ![p].tokenC = 0]

\* The registry's rotate_token_a.
AfterRotation(p, t) == [registered EXCEPT ![p].tokenA = t]

\* POST /admin/ocpi/partners/{partner_id}/rotate-token.
RotateToken(p) ==
    /\ registered[p].status # "absent" /\ secrets < MaxSecrets
    /\ secrets' = secrets + 1
    /\ registered' = AfterRotation(p, secrets')
    /\ UNCHANGED <<handed, shake, held, astray>>

\* The operator passes token_a on, some time after it was made.
HandOver(p) ==
    /\ registered[p].tokenA # handed[p]
    /\ handed' = [handed EXCEPT ![p] = registered[p].tokenA]
    /\ UNCHANGED <<registered, secrets, shake, held, astray>>

\* A partner sends POST /ocpi/{version}/credentials.
Ask(h, p, v) ==
    /\ shake[h] = NoShake /\ handed[p] # 0
    /\ shake' = [k \in Handshakes |->
                   IF k = h THEN [NoShake EXCEPT !.pc = "sent", !.party = p, !.tokenA = handed[p], !.version = v,
                                                 !.alone = Under(p) = {}]
                   ELSE IF k \in Under(p) THEN [shake[k] EXCEPT !.alone = FALSE] ELSE shake[k]]
    /\ UNCHANGED <<registered, secrets, handed, held, astray>>

\* set_negotiated_version.
Connected(p, v, t) ==
    [registered EXCEPT ![p].status = "connected", ![p].tokenC = t, ![p].version = v]

\* negotiate_credentials: an unknown version, then an unknown token_a, is refused.
NegotiateCredentials(h) ==
    /\ shake[h].pc = "sent"
    /\ IF shake[h].version \notin SupportedVersions \/ ByTokenA(shake[h].tokenA) = {}
       THEN /\ shake' = [shake EXCEPT ![h].pc = "refused", ![h].tokenA = 0, ![h].version = "none"]
            /\ UNCHANGED <<registered, secrets>>
       ELSE /\ secrets < MaxSecrets /\ secrets' = secrets + 1
            /\ \E p \in ByTokenA(shake[h].tokenA) : registered' = Connected(p, shake[h].version, secrets')
            /\ shake' = [shake EXCEPT ![h].pc = "served", ![h].tokenA = 0, ![h].tokenC = secrets']
    /\ UNCHANGED <<handed, held, astray>>

\* The partner reads the answer and keeps a token it was given.
Hear(h) ==
    LET p == shake[h].party
    IN  /\ shake[h].pc \in {"served", "refused"}
        /\ held' = IF shake[h].pc = "served"
                   THEN [held EXCEPT ![p] = [tokenC |-> shake[h].tokenC, version |-> shake[h].version]] ELSE held
        /\ astray' = IF ~shake[h].alone THEN astray \cup {p}
                     ELSE IF shake[h].pc = "served" THEN astray \ {p} ELSE astray
        /\ shake' = [shake EXCEPT ![h] = NoShake]
        /\ UNCHANGED <<registered, secrets, handed>>

\* The request or its answer is lost.
Lose(h) ==
    /\ shake[h].pc # "idle"
    /\ astray' = astray \cup {shake[h].party}
    /\ shake' = [shake EXCEPT ![h] = NoShake]
    /\ UNCHANGED <<registered, secrets, handed, held>>

\* The edge process restarts: the registry is empty and requests under way fail.
EdgeRestarts ==
    /\ registered' = [p \in Parties |-> NotOnboarded]
    /\ shake' = [h \in Handshakes |-> NoShake]
    /\ astray' = Parties
    /\ UNCHANGED <<secrets, handed, held>>

RpNext ==
    \/ EdgeRestarts
    \/ \E p \in Parties : CreatePartner(p) \/ RotateToken(p) \/ HandOver(p)
    \/ \E h \in Handshakes :
          \/ NegotiateCredentials(h) \/ Hear(h) \/ Lose(h)
          \/ \E p \in Parties, v \in AskedVersions : Ask(h, p, v)

RpSpec == RpInit /\ [][RpNext]_rpVars

------------------------------------------------------------------------------
(* HeldTokenWorks: token_a is rotated while the partner holds a token_c made    *)
(* from the old one, and a handshake replaces token_c before the partner has    *)
(* read the answer (versions.py:48-59, partner_store.py:76-84).  A partner none *)
(* of whose answers went astray is known by the token it holds, at the version  *)
(* it asked for, whatever rotations and refused handshakes came since; and no   *)
(* token a partner holds is ever taken for another partner's.                   *)
HeldTokenWorks ==
    \A p \in Parties : held[p].tokenC # 0 =>
        /\ AuthenticatePartner(held[p].tokenC) \subseteq {p}
        /\ p \notin astray /\ Under(p) = {} =>
               /\ AuthenticatePartner(held[p].tokenC) = {p}
               /\ registered[p].version = held[p].version
==============================================================================
