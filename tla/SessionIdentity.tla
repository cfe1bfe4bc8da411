--------------------------- MODULE SessionIdentity ---------------------------
(* Who a charging session is for: the QR token, the vehicle's MAC address      *)
(* (autocharge) and the contract certificate (plug and charge), with the OCSP  *)
(* responder asked over HTTP while everything else goes on, and the driver's   *)
(* opt-in by vehicle.  The certificate authority and its responder are         *)
(* external: the responder never calls a revoked certificate good.             *)
EXTENDS Naturals

CONSTANTS
    CarDrivers,    \* drivers
    Cars,          \* vehicle ids
    Addresses,     \* MAC addresses of vehicles
    Contracts,     \* contract certificates
    TrustedOnes,   \* those signed by a configured CA
    EmaidDriver,   \* the driver each certificate's EMAID is mapped to, or NoDriver
    Starts,        \* requests under way at once
    QrTtl,
    ValidUntil,    \* when the certificates expire
    MaxIdClock,    \* bound: time
    NoDriver

ASSUME IdentityAssumption ==
    /\ TrustedOnes \subseteq Contracts
    /\ EmaidDriver \in [Contracts -> CarDrivers \cup {NoDriver}]
    /\ QrTtl \in Nat /\ ValidUntil \in Nat /\ MaxIdClock \in Nat
    /\ NoDriver \notin CarDrivers \cup Contracts

VARIABLES
    idClock,
    revokedOnes, \* certificates the CA has revoked
    macDriver,   \* InMemoryAutochargeMacStore._mapping
    car,         \* InMemoryVehicleStore._vehicles: owner and plug_and_charge_enabled
    start        \* the requests

siVars == <<idClock, revokedOnes, macDriver, car, start>>

NoCar == [owner |-> NoDriver, enabled |-> FALSE]
NoStart == [pc |-> "idle", contract |-> NoDriver, driver |-> NoDriver, dead |-> FALSE]

SiTypeOK ==
    /\ idClock \in 0..MaxIdClock /\ revokedOnes \subseteq Contracts
    /\ macDriver \in [Addresses -> CarDrivers \cup {NoDriver}]
    /\ car \in [Cars -> [owner: CarDrivers \cup {NoDriver}, enabled: BOOLEAN]]
    /\ start \in [Starts -> [pc: {"idle", "asking", "dispatched", "started"}, contract: Contracts \cup {NoDriver},
                             driver: CarDrivers \cup {NoDriver}, dead: BOOLEAN]]

SiInit ==
    /\ idClock = 0 /\ revokedOnes = {}
    /\ macDriver = [a \in Addresses |-> NoDriver]
    /\ car = [v \in Cars |-> NoCar]
    /\ start = [q \in Starts |-> NoStart]

------------------------------------------------------------------------------
\* The vehicle store and its router: a vehicle is its owner's alone.
CreateVehicle(d, v) ==
    /\ car[v] = NoCar
    /\ car' = [car EXCEPT ![v] = [owner |-> d, enabled |-> FALSE]]
    /\ UNCHANGED <<idClock, revokedOnes, macDriver, start>>

OwnedVehicle(d, v) == car[v].owner = d

SetPlugAndCharge(d, v, enabled) ==
    /\ OwnedVehicle(d, v)
    /\ car' = [car EXCEPT ![v].enabled = enabled]
    /\ UNCHANGED <<idClock, revokedOnes, macDriver, start>>

DeleteVehicle(d, v) ==
    /\ OwnedVehicle(d, v)
    /\ car' = [car EXCEPT ![v] = NoCar]
    /\ UNCHANGED <<idClock, revokedOnes, macDriver, start>>

\* A MAC address arrives in either case and is kept in lower case.
LowerCase(mac) == mac.address

RegisterMac(mac, d) ==
    /\ macDriver' = [macDriver EXCEPT ![LowerCase(mac)] = d]
    /\ UNCHANGED <<idClock, revokedOnes, car, start>>

------------------------------------------------------------------------------
\* _dispatch_remote_start awaits the charger.
Dispatched(q, d) == [start EXCEPT ![q].pc = "dispatched", ![q].driver = d]

\* verify_qr_token: the token is signed with the secret that the request's own
\* body carries, and is not expired by the issue time it claims.
QrTokenValid(token, secret) == token.secret = secret /\ idClock <= token.issued + QrTtl

StartViaQr(q, d, token, secret) ==
    /\ start[q] = NoStart /\ QrTokenValid(token, secret)
    /\ start' = Dispatched(q, d)
    /\ UNCHANGED <<idClock, revokedOnes, macDriver, car>>

StartViaApp(q, d) ==
    /\ start[q] = NoStart
    /\ start' = Dispatched(q, d)
    /\ UNCHANGED <<idClock, revokedOnes, macDriver, car>>

\* Any of the driver's vehicles has opted in.
OptedIn(d) == \E v \in Cars : OwnedVehicle(d, v) /\ car[v].enabled

StartViaAutocharge(q, mac) ==
    LET d == macDriver[LowerCase(mac)]
    IN  /\ start[q] = NoStart /\ d # NoDriver /\ OptedIn(d)
        /\ start' = Dispatched(q, d)
        /\ UNCHANGED <<idClock, revokedOnes, macDriver, car>>

SignedByTrusted(c) == c \in TrustedOnes

\* resolve_driver_from_cert up to the await of the responder.
PresentCertificate(q, c) ==
    /\ start[q] = NoStart /\ SignedByTrusted(c) /\ idClock <= ValidUntil
    /\ start' = [start EXCEPT ![q] = [NoStart EXCEPT !.pc = "asking", !.contract = c, !.dead = c \in revokedOnes]]
    /\ UNCHANGED <<idClock, revokedOnes, macDriver, car>>

\* The responder's answer, or none: unreachable, not 200, malformed or not successful.
Replies(c) == {"unknown", "none"} \cup (IF c \in revokedOnes THEN {"revoked"} ELSE {"good"})

\* Variant: without an answer the certificate is presumed good.
PresumedGood(reply) == reply \in {"good", "none"}

\* HttpOcspChecker fails closed.
ConfirmedGood(reply) == reply = "good"

\* What is left of resolve_driver_from_cert, the opt-in and the dispatch; every
\* error ends the request.
OcspAnswers(q, reply) ==
    LET d == EmaidDriver[start[q].contract]
    IN  /\ start[q].pc = "asking" /\ reply \in Replies(start[q].contract)
        /\ start' = IF ConfirmedGood(reply) /\ d # NoDriver /\ OptedIn(d)
                    THEN Dispatched(q, d)
                    ELSE [start EXCEPT ![q] = NoStart]
        /\ UNCHANGED <<idClock, revokedOnes, macDriver, car>>

\* The charger accepts, or does not, is offline or times out.
RemoteStartEnds(q, accepted) ==
    /\ start[q].pc = "dispatched"
    /\ start' = IF accepted THEN [start EXCEPT ![q].pc = "started"] ELSE [start EXCEPT ![q] = NoStart]
    /\ UNCHANGED <<idClock, revokedOnes, macDriver, car>>

SessionGone(q) ==
    /\ start[q].pc = "started"
    /\ start' = [start EXCEPT ![q] = NoStart]
    /\ UNCHANGED <<idClock, revokedOnes, macDriver, car>>

RevokeContract(c) ==
    /\ revokedOnes' = revokedOnes \cup {c}
    /\ UNCHANGED <<idClock, macDriver, car, start>>

IdTick ==
    /\ idClock < MaxIdClock
    /\ idClock' = idClock + 1
    /\ UNCHANGED <<revokedOnes, macDriver, car, start>>

Macs == [address: Addresses, upper: BOOLEAN]
Secrets == {"printed", "other"}
QrTokens == [issued: 0..MaxIdClock, secret: Secrets]

SiNext ==
    \/ \E d \in CarDrivers, v \in Cars :
          CreateVehicle(d, v) \/ DeleteVehicle(d, v) \/ \E enabled \in BOOLEAN : SetPlugAndCharge(d, v, enabled)
    \/ \E d \in CarDrivers, mac \in Macs : RegisterMac(mac, d)
    \/ \E q \in Starts :
          \/ \E d \in CarDrivers :
                StartViaApp(q, d) \/ \E token \in QrTokens, secret \in Secrets : StartViaQr(q, d, token, secret)
          \/ \E mac \in Macs : StartViaAutocharge(q, mac)
          \/ \E c \in Contracts : PresentCertificate(q, c)
          \/ \E reply \in {"good", "revoked", "unknown", "none"} : OcspAnswers(q, reply)
          \/ \E accepted \in BOOLEAN : RemoteStartEnds(q, accepted)
          \/ SessionGone(q)
    \/ \E c \in Contracts : RevokeContract(c)
    \/ IdTick

SiSpec == SiInit /\ [][SiNext]_siVars

------------------------------------------------------------------------------
(* RevokedNeverStarts: the responder is asked while the certificate may be      *)
(* revoked, its connection lost and the vehicle's opt-in withdrawn              *)
(* (plug_and_charge.py:183).  No session is started with a certificate that     *)
(* was not trusted or was revoked before it was presented.                      *)
RevokedNeverStarts ==
    \A q \in Starts : start[q].pc = "started" /\ start[q].contract # NoDriver =>
        start[q].contract \in TrustedOnes /\ ~start[q].dead
==============================================================================
