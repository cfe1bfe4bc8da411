--------------------------- MODULE PlatformProofs ----------------------------
(* What holds of the services around a charging session for any number of       *)
(* tenants, requests, drivers, versions and periods: a request's tenant, who a  *)
(* session is for, the charger's registration and firmware, tariffs, invoices,  *)
(* fleet seats, the carbon cache, the app's tokens, prices and fleet reports.   *)
(* Each part states its inductive invariant, shows that every action keeps it,  *)
(* and ends with the theorem.                                                   *)
EXTENDS Tenancy, SessionIdentity, ChargerOnboarding, TariffCatalogue, Invoicing, FleetTeams, CarbonIntensity,
        DriverAuth, Pricing, FleetReports, SetSums, TLAPS

(***************************************************************************)
(* Tenancy                                                                 *)
(***************************************************************************)

RequestSet == [pc: {"idle", "sent", "inside", "bound"}, tenant: Tenants \cup {None},
               signature: Tenants \cup {None}, driver: TeamMembers \cup {None},
               ctx: Tenants \cup {None}, rows: SUBSET Tenants,
               caller: Tenants \cup {None}]

\* What is signed is the caller's tenant, and what passed the middlewares has
\* the caller's tenant as its context.
RequestIsCallers(q) ==
    /\ q.signature # None => q.signature = q.caller
    /\ q.pc \in {"inside", "bound"} => q.caller # None /\ q.ctx = q.caller
    /\ q.rows \subseteq {q.caller}

RequestsAreCallers == \A r \in Requests : RequestIsCallers(req[r])

\* A connection without a transaction has no setting; one with a transaction
\* runs it for a bound request, and has no setting or the caller's.
ConnectionsAreCallers ==
    \A c \in Connections :
        /\ user[c] = None => setting[c] = None
        /\ user[c] # None =>
              req[user[c]].pc = "bound" /\ setting[c] \in {None, req[user[c]].caller}

TeInv == TeTypeOK /\ RequestsAreCallers /\ ConnectionsAreCallers

LEMMA TeTyping == TeTypeOK <=> /\ req \in [Requests -> RequestSet]
                               /\ setting \in [Connections -> Tenants \cup {None}]
                               /\ user \in [Connections -> Requests \cup {None}]
  BY DEF TeTypeOK, RequestSet

LEMMA NoRequestFields ==
    /\ NoRequest \in RequestSet
    /\ NoRequest.pc = "idle" /\ NoRequest.tenant = None /\ NoRequest.signature = None /\ NoRequest.driver = None
    /\ NoRequest.ctx = None /\ NoRequest.rows = {} /\ NoRequest.caller = None
  BY DEF NoRequest, RequestSet

LEMMA NoRequestIsCallers == RequestIsCallers(NoRequest)
  BY NoRequestFields DEF RequestIsCallers

\* A step that gives one request another record and leaves the connections
\* alone keeps the invariant when no connection runs a transaction of it.
LEMMA RequestChanges ==
    ASSUME TeInv, NEW r \in Requests, NEW q \in RequestSet, RequestIsCallers(q),
           req' = [req EXCEPT ![r] = q], UNCHANGED <<setting, user>>,
           \A c \in Connections : user[c] # r
    PROVE  TeInv'
  <1>1. TeTypeOK'
    BY TeTyping DEF TeInv, TeTypeOK, RequestSet
  <1>2. RequestsAreCallers'
    <2> SUFFICES ASSUME NEW s \in Requests PROVE RequestIsCallers(req[s])'
      BY DEF RequestsAreCallers
    <2>1. req'[s] = IF s = r THEN q ELSE req[s]
      BY DEF TeInv, TeTypeOK
    <2> QED
      BY <2>1 DEF TeInv, RequestsAreCallers, RequestIsCallers
  <1>3. ConnectionsAreCallers'
    <2> SUFFICES ASSUME NEW c \in Connections
                 PROVE  /\ user[c] = None => setting[c] = None
                        /\ user[c] # None =>
                              req'[user[c]].pc = "bound" /\ setting[c] \in {None, req'[user[c]].caller}
      BY DEF ConnectionsAreCallers
    <2>1. user[c] # None => user[c] \in Requests /\ user[c] # r
      BY DEF TeInv, TeTypeOK
    <2>2. user[c] # None => req'[user[c]] = req[user[c]]
      BY <2>1 DEF TeInv, TeTypeOK
    <2> QED
      BY <2>2 DEF TeInv, ConnectionsAreCallers
  <1> QED
    BY <1>1, <1>2, <1>3 DEF TeInv

\* A transaction is run for a bound request only.
LEMMA UnboundHoldsNothing ==
    ASSUME TeInv, NEW r \in Requests, req[r].pc # "bound" \/ Outside(r)
    PROVE  \A c \in Connections : user[c] # r
  BY TenancyAssumption DEF TeInv, ConnectionsAreCallers, Outside, Holds

LEMMA TeInvInit == TeInit => TeInv
  <1> SUFFICES ASSUME TeInit PROVE TeInv
    OBVIOUS
  <1>1. TeTypeOK
    BY NoRequestFields, TeTyping DEF TeInit
  <1>2. RequestsAreCallers
    BY NoRequestIsCallers DEF TeInit, RequestsAreCallers
  <1>3. ConnectionsAreCallers
    BY DEF TeInit, ConnectionsAreCallers
  <1> QED
    BY <1>1, <1>2, <1>3 DEF TeInv

LEMMA TeSends ==
    ASSUME TeInv, NEW r \in Requests,
           \/ \E d, who \in TeamMembers : Upstream(r, d, who)
           \/ \E t \in Tenants : ForwardDev(r, t)
           \/ \E t \in Tenants \cup {None} : Direct(r, t)
    PROVE  TeInv'
  <1>1. req[r] = NoRequest /\ UNCHANGED <<setting, user>>
    BY DEF Upstream, ForwardDev, Direct
  <1>2. \A c \in Connections : user[c] # r
    BY <1>1, NoRequestFields, UnboundHoldsNothing
  <1>3. CASE \E d, who \in TeamMembers : Upstream(r, d, who)
    <2>1. PICK d \in TeamMembers, who \in TeamMembers : Upstream(r, d, who)
      BY <1>3
    <2>2. PICK q : q = [NoRequest EXCEPT !.pc = "sent", !.tenant = TenantOf[d], !.signature = TenantOf[d],
                                         !.driver = who, !.caller = TenantOf[d]]
      OBVIOUS
    <2>3. TenantOf[d] \in Tenants
      BY TenancyAssumption DEF TeamMembers
    <2>4. q \in RequestSet /\ RequestIsCallers(q)
      BY <2>2, <2>3 DEF RequestSet, RequestIsCallers, NoRequest
    <2>5. req' = [req EXCEPT ![r] = q]
      BY <2>1, <2>2 DEF Upstream
    <2> QED
      BY <1>1, <1>2, <2>4, <2>5, RequestChanges
  <1>4. CASE \E t \in Tenants : ForwardDev(r, t)
    <2>1. PICK t \in Tenants : ForwardDev(r, t)
      BY <1>4
    <2>2. PICK q : q = [NoRequest EXCEPT !.pc = "sent", !.tenant = t, !.signature = t, !.caller = t]
      OBVIOUS
    <2>4. q \in RequestSet /\ RequestIsCallers(q)
      BY <2>2 DEF RequestSet, RequestIsCallers, NoRequest
    <2>5. req' = [req EXCEPT ![r] = q]
      BY <2>1, <2>2 DEF ForwardDev
    <2> QED
      BY <1>1, <1>2, <2>4, <2>5, RequestChanges
  <1>5. CASE \E t \in Tenants \cup {None} : Direct(r, t)
    <2>1. PICK t \in Tenants \cup {None} : Direct(r, t)
      BY <1>5
    <2>2. PICK q : q = [NoRequest EXCEPT !.pc = "sent", !.tenant = t]
      OBVIOUS
    <2>4. q \in RequestSet /\ RequestIsCallers(q)
      BY <2>2 DEF RequestSet, RequestIsCallers, NoRequest
    <2>5. req' = [req EXCEPT ![r] = q]
      BY <2>1, <2>2 DEF Direct
    <2> QED
      BY <1>1, <1>2, <2>4, <2>5, RequestChanges
  <1> QED
    BY <1>3, <1>4, <1>5

\* The middlewares let in only what is signed for the tenant it names.
LEMMA TeEnter ==
    ASSUME TeInv, NEW r \in Requests, Enter(r)
    PROVE  TeInv'
  <1>1. PICK q : q = [req[r] EXCEPT !.pc = "inside", !.ctx = req[r].tenant]
    OBVIOUS
  <1>2. req[r] \in RequestSet /\ RequestIsCallers(req[r]) /\ req[r].pc = "sent"
        /\ req[r].tenant # None /\ req[r].signature = req[r].tenant
    BY TeTyping DEF TeInv, RequestsAreCallers, Enter, Trusted
  <1>3. q \in RequestSet
    BY <1>1, <1>2 DEF RequestSet
  <1>4. RequestIsCallers(q)
    BY <1>1, <1>2 DEF RequestSet, RequestIsCallers
  <1>5. req' = [req EXCEPT ![r] = q] /\ UNCHANGED <<setting, user>>
    BY <1>1 DEF Enter
  <1>6. \A c \in Connections : user[c] # r
    BY <1>2, UnboundHoldsNothing
  <1> QED
    BY <1>3, <1>4, <1>5, <1>6, RequestChanges

LEMMA TeEnds ==
    ASSUME TeInv, NEW r \in Requests, Refuse(r) \/ Respond(r)
    PROVE  TeInv'
  <1>1. req' = [req EXCEPT ![r] = NoRequest] /\ UNCHANGED <<setting, user>>
    BY DEF Refuse, Respond
  <1>2. \A c \in Connections : user[c] # r
    BY UnboundHoldsNothing DEF Refuse, Respond
  <1> QED
    BY <1>1, <1>2, NoRequestFields, NoRequestIsCallers, RequestChanges

LEMMA TeBind ==
    ASSUME TeInv, NEW r \in Requests, NEW c \in Connections, BindTenant(r, c)
    PROVE  TeInv'
  <1>1. PICK q : q = [req[r] EXCEPT !.pc = "bound"]
    OBVIOUS
  <1>2. req[r] \in RequestSet /\ RequestIsCallers(req[r]) /\ req[r].pc = "inside" /\ req[r].ctx = req[r].caller
    BY TeTyping DEF TeInv, RequestsAreCallers, BindTenant, RequestIsCallers
  <1>3. q \in RequestSet /\ RequestIsCallers(q) /\ q.pc = "bound" /\ q.caller = req[r].caller
    BY <1>1, <1>2 DEF RequestSet, RequestIsCallers
  <1>4. /\ req' = [req EXCEPT ![r] = q] /\ user' = [user EXCEPT ![c] = r]
        /\ setting' = [setting EXCEPT ![c] = req[r].ctx]
    BY <1>1 DEF BindTenant
  <1>5. \A k \in Connections : user[k] # r
    BY <1>2, UnboundHoldsNothing
  <1>6. req[r].ctx \in Tenants \cup {None}
    BY <1>2 DEF RequestSet
  <1>7. TeTypeOK'
    BY <1>3, <1>4, <1>6, TeTyping DEF TeInv, TeTypeOK, RequestSet
  <1>8. \A s \in Requests : req'[s] = IF s = r THEN q ELSE req[s]
    BY <1>4 DEF TeInv, TeTypeOK
  <1>9. RequestsAreCallers'
    BY <1>3, <1>8 DEF TeInv, RequestsAreCallers, RequestIsCallers
  <1>10. ConnectionsAreCallers'
    <2> SUFFICES ASSUME NEW k \in Connections
                 PROVE  /\ user'[k] = None => setting'[k] = None
                        /\ user'[k] # None =>
                              req'[user'[k]].pc = "bound" /\ setting'[k] \in {None, req'[user'[k]].caller}
      BY DEF ConnectionsAreCallers
    <2>1. CASE k = c
      <3>1. user'[k] = r /\ setting'[k] = req[r].ctx
        BY <2>1, <1>4 DEF TeInv, TeTypeOK
      <3>2. r # None
        BY TenancyAssumption
      <3> QED
        BY <3>1, <3>2, <1>2, <1>3, <1>8
    <2>2. CASE k # c
      <3>1. user'[k] = user[k] /\ setting'[k] = setting[k]
        BY <2>2, <1>4 DEF TeInv, TeTypeOK
      <3>2. user[k] # None => user[k] \in Requests /\ user[k] # r
        BY <1>5 DEF TeInv, TeTypeOK
      <3> QED
        BY <3>1, <3>2, <1>8 DEF TeInv, ConnectionsAreCallers
    <2> QED
      BY <2>1, <2>2
  <1> QED
    BY <1>7, <1>9, <1>10 DEF TeInv

\* The transaction after a commit has no setting.
LEMMA TeAgain ==
    ASSUME TeInv, NEW r \in Requests, NEW c \in Connections, BeginAgain(r, c)
    PROVE  TeInv'
  <1>1. /\ req' = req /\ user' = [user EXCEPT ![c] = r] /\ setting' = setting /\ req[r].pc = "bound"
        /\ setting[c] = None
    BY DEF BeginAgain, TeInv, ConnectionsAreCallers
  <1>2. TeTypeOK'
    BY <1>1 DEF TeInv, TeTypeOK
  <1>3. RequestsAreCallers'
    BY <1>1 DEF TeInv, RequestsAreCallers, RequestIsCallers
  <1>4. ConnectionsAreCallers'
    BY <1>1, TenancyAssumption DEF TeInv, TeTypeOK, ConnectionsAreCallers
  <1> QED
    BY <1>2, <1>3, <1>4 DEF TeInv

LEMMA TeQuery ==
    ASSUME TeInv, NEW r \in Requests, NEW c \in Connections, Query(r, c)
    PROVE  TeInv'
  <1>1. PICK q : q = [req[r] EXCEPT !.rows = req[r].rows \cup Visible(c)]
    OBVIOUS
  <1>2. user[c] = r /\ r # None
    BY TenancyAssumption DEF Query, Holds
  <1>3. req[r] \in RequestSet /\ RequestIsCallers(req[r]) /\ setting[c] \in {None, req[r].caller}
    BY <1>2, TeTyping DEF TeInv, RequestsAreCallers, ConnectionsAreCallers
  <1>4. Visible(c) \subseteq {req[r].caller} /\ Visible(c) \subseteq Tenants
    BY <1>3, TenancyAssumption DEF Visible
  <1>5. q \in RequestSet
    BY <1>1, <1>3, <1>4 DEF RequestSet
  <1>6. RequestIsCallers(q) /\ q.pc = req[r].pc /\ q.caller = req[r].caller
    BY <1>1, <1>3, <1>4 DEF RequestSet, RequestIsCallers
  <1>7. req' = [req EXCEPT ![r] = q] /\ UNCHANGED <<setting, user>>
    BY <1>1 DEF Query
  <1>8. \A s \in Requests : req'[s] = IF s = r THEN q ELSE req[s]
    BY <1>7 DEF TeInv, TeTypeOK
  <1>9. TeTypeOK'
    BY <1>5, <1>7, TeTyping DEF TeInv, TeTypeOK, RequestSet
  <1>10. RequestsAreCallers'
    BY <1>6, <1>8 DEF TeInv, RequestsAreCallers, RequestIsCallers
  <1>11. ConnectionsAreCallers'
    <2> SUFFICES ASSUME NEW k \in Connections
                 PROVE  /\ user[k] = None => setting[k] = None
                        /\ user[k] # None =>
                              req'[user[k]].pc = "bound" /\ setting[k] \in {None, req'[user[k]].caller}
      BY <1>7 DEF ConnectionsAreCallers
    <2>1. user[k] # None => user[k] \in Requests
      BY DEF TeInv, TeTypeOK
    <2> QED
      BY <2>1, <1>6, <1>8 DEF TeInv, ConnectionsAreCallers
  <1> QED
    BY <1>9, <1>10, <1>11 DEF TeInv

LEMMA TeTransactionEnds ==
    ASSUME TeInv, NEW r \in Requests, NEW c \in Connections, TransactionEnds(r, c)
    PROVE  TeInv'
  <1>1. req' = req /\ user' = [user EXCEPT ![c] = None] /\ setting' = [setting EXCEPT ![c] = None]
    BY DEF TransactionEnds, SettingAfter
  <1>2. TeTypeOK'
    BY <1>1 DEF TeInv, TeTypeOK
  <1>3. RequestsAreCallers'
    BY <1>1 DEF TeInv, RequestsAreCallers, RequestIsCallers
  <1>4. ConnectionsAreCallers'
    BY <1>1 DEF TeInv, TeTypeOK, ConnectionsAreCallers
  <1> QED
    BY <1>2, <1>3, <1>4 DEF TeInv

LEMMA TeInvNext == TeInv /\ [TeNext]_teVars => TeInv'
  <1> SUFFICES ASSUME TeInv, [TeNext]_teVars PROVE TeInv'
    OBVIOUS
  <1>1. CASE UNCHANGED teVars
    <2>1. req' = req /\ setting' = setting /\ user' = user
      BY <1>1 DEF teVars
    <2> QED
      BY <2>1 DEF TeInv, TeTypeOK, RequestsAreCallers, RequestIsCallers, ConnectionsAreCallers
  <1>2. CASE TeNext
    <2>1. PICK r \in Requests :
            \/ \E d, who \in TeamMembers : Upstream(r, d, who)
            \/ \E t \in Tenants : ForwardDev(r, t)
            \/ \E t \in Tenants \cup {None} : Direct(r, t)
            \/ Enter(r) \/ Refuse(r) \/ Respond(r)
            \/ \E c \in Connections : BindTenant(r, c) \/ BeginAgain(r, c) \/ Query(r, c) \/ TransactionEnds(r, c)
      BY <1>2 DEF TeNext, ForwardSession, ForwardedDriver, ForwardWallet, ForwardRewards
    <2> QED
      BY <2>1, TeSends, TeEnter, TeEnds, TeBind, TeAgain, TeQuery, TeTransactionEnds
  <1> QED
    BY <1>1, <1>2

(* RowsAreCallers, for any number of requests, tenants and pooled connections:  *)
(* the signature the edge puts on the verified caller's tenant and the          *)
(* middlewares that refuse any other (gateway/middleware.py, core/tenancy.py)   *)
(* make that tenant the context of every request main.py lets in; and on the    *)
(* get_db path a set_config that ends with its transaction (core/db.py) is      *)
(* enough for row level security to show a request only its caller's rows.      *)
THEOREM RequestsReadTheirOwn == TeSpec => []RowsAreCallers
  <1>1. TeInv => RowsAreCallers
    BY DEF TeInv, RequestsAreCallers, RequestIsCallers, RowsAreCallers
  <1> QED
    BY <1>1, TeInvInit, TeInvNext, PTL DEF TeSpec

(***************************************************************************)
(* SessionIdentity                                                         *)
(***************************************************************************)

StartSet == [pc: {"idle", "asking", "dispatched", "started"}, contract: Contracts \cup {NoDriver},
             driver: CarDrivers \cup {NoDriver}, dead: BOOLEAN]

\* A certificate that was already revoked when it was presented is still revoked
\* when the responder is asked, so its request goes no further than that.
StartIsSound(s, gone) ==
    /\ s.pc = "asking" => s.contract # NoDriver
    /\ s.contract # NoDriver => s.contract \in TrustedOnes
    /\ s.dead => s.contract \in gone
    /\ s.pc \in {"dispatched", "started"} => ~s.dead

StartsAreSound == \A q \in Starts : StartIsSound(start[q], revokedOnes)

SiInv == SiTypeOK /\ StartsAreSound

LEMMA SiTyping == SiTypeOK <=> /\ idClock \in 0..MaxIdClock /\ revokedOnes \subseteq Contracts
                               /\ macDriver \in [Addresses -> CarDrivers \cup {NoDriver}]
                               /\ car \in [Cars -> [owner: CarDrivers \cup {NoDriver}, enabled: BOOLEAN]]
                               /\ start \in [Starts -> StartSet]
  BY DEF SiTypeOK, StartSet

LEMMA NoStartFields ==
    /\ NoStart \in StartSet
    /\ NoStart.pc = "idle" /\ NoStart.contract = NoDriver /\ NoStart.driver = NoDriver /\ NoStart.dead = FALSE
  BY DEF NoStart, StartSet

LEMMA NoStartIsSound == ASSUME NEW gone PROVE StartIsSound(NoStart, gone)
  BY NoStartFields DEF StartIsSound

\* A step that gives one request another sound record keeps the invariant.
LEMMA StartChanges ==
    ASSUME SiInv, NEW q \in Starts, NEW s \in StartSet, StartIsSound(s, revokedOnes),
           start' = [start EXCEPT ![q] = s], UNCHANGED <<idClock, revokedOnes, macDriver, car>>
    PROVE  SiInv'
  <1>1. SiTypeOK'
    BY SiTyping DEF SiInv, SiTypeOK, StartSet
  <1>2. StartsAreSound'
    <2> SUFFICES ASSUME NEW p \in Starts PROVE StartIsSound(start'[p], revokedOnes)
      BY DEF StartsAreSound
    <2>1. start'[p] = IF p = q THEN s ELSE start[p]
      BY DEF SiInv, SiTypeOK
    <2> QED
      BY <2>1 DEF SiInv, StartsAreSound
  <1> QED
    BY <1>1, <1>2 DEF SiInv

LEMMA SiInvInit == SiInit => SiInv
  <1> SUFFICES ASSUME SiInit PROVE SiInv
    OBVIOUS
  <1>1. NoCar \in [owner: CarDrivers \cup {NoDriver}, enabled: BOOLEAN]
    BY DEF NoCar
  <1>2. SiTypeOK
    BY <1>1, NoStartFields, SiTyping, IdentityAssumption DEF SiInit
  <1>3. StartsAreSound
    BY NoStartIsSound DEF SiInit, StartsAreSound
  <1> QED
    BY <1>2, <1>3 DEF SiInv

\* The vehicles and the MAC addresses say nothing about the requests under way.
LEMMA SiVehicles ==
    ASSUME SiInv,
           \/ \E d \in CarDrivers, v \in Cars :
                 CreateVehicle(d, v) \/ DeleteVehicle(d, v) \/ \E enabled \in BOOLEAN : SetPlugAndCharge(d, v, enabled)
           \/ \E d \in CarDrivers, mac \in Macs : RegisterMac(mac, d)
    PROVE  SiInv'
  <1> DEFINE CarSet == [owner: CarDrivers \cup {NoDriver}, enabled: BOOLEAN]
  <1>1. idClock' = idClock /\ revokedOnes' = revokedOnes /\ start' = start
    BY DEF CreateVehicle, DeleteVehicle, SetPlugAndCharge, RegisterMac
  <1>2. car' \in [Cars -> CarSet] /\ macDriver' \in [Addresses -> CarDrivers \cup {NoDriver}]
    <2>1. ASSUME NEW d \in CarDrivers, NEW v \in Cars, CreateVehicle(d, v) PROVE <1>2
      BY <2>1 DEF SiInv, SiTypeOK, CreateVehicle
    <2>2. ASSUME NEW d \in CarDrivers, NEW v \in Cars, DeleteVehicle(d, v) PROVE <1>2
      <3>1. NoCar \in CarSet
        BY DEF NoCar
      <3> QED
        BY <3>1, <2>2 DEF SiInv, SiTypeOK, DeleteVehicle
    <2>3. ASSUME NEW d \in CarDrivers, NEW v \in Cars, NEW enabled \in BOOLEAN, SetPlugAndCharge(d, v, enabled)
          PROVE  <1>2
      <3>1. car[v] \in CarSet
        BY DEF SiInv, SiTypeOK
      <3>2. [car[v] EXCEPT !.enabled = enabled] \in CarSet
        BY <3>1
      <3>3. car' = [car EXCEPT ![v] = [car[v] EXCEPT !.enabled = enabled]] /\ macDriver' = macDriver
        BY <2>3 DEF SetPlugAndCharge
      <3> QED
        BY <3>2, <3>3 DEF SiInv, SiTypeOK
    <2>4. ASSUME NEW d \in CarDrivers, NEW mac \in Macs, RegisterMac(mac, d) PROVE <1>2
      BY <2>4 DEF SiInv, SiTypeOK, RegisterMac
    <2> QED
      BY <2>1, <2>2, <2>3, <2>4
  <1>3. SiTypeOK'
    BY <1>1, <1>2 DEF SiInv, SiTypeOK
  <1> QED
    BY <1>1, <1>3 DEF SiInv, StartsAreSound

\* A request without a certificate is dispatched at once.
LEMMA DispatchOfIdle ==
    ASSUME SiInv, NEW q \in Starts, NEW d \in CarDrivers, start[q] = NoStart,
           start' = Dispatched(q, d), UNCHANGED <<idClock, revokedOnes, macDriver, car>>
    PROVE  SiInv'
  <1>1. PICK s : s = [NoStart EXCEPT !.pc = "dispatched", !.driver = d]
    OBVIOUS
  <1>2. s \in StartSet /\ StartIsSound(s, revokedOnes)
    BY <1>1 DEF StartSet, StartIsSound, NoStart
  <1>3. start' = [start EXCEPT ![q] = s]
    BY <1>1 DEF Dispatched
  <1> QED
    BY <1>2, <1>3, StartChanges

LEMMA SiPresent ==
    ASSUME SiInv, NEW q \in Starts, NEW c \in Contracts, PresentCertificate(q, c)
    PROVE  SiInv'
  <1>0. (c \in revokedOnes) \in BOOLEAN
    OBVIOUS
  <1>1. PICK b \in BOOLEAN : b = (c \in revokedOnes)
    BY <1>0, Zenon
  <1>2. PICK s : s = [NoStart EXCEPT !.pc = "asking", !.contract = c, !.dead = b]
    OBVIOUS
  <1>3. s \in StartSet
    BY <1>2 DEF StartSet, NoStart
  <1>4. s.pc = "asking" /\ s.contract = c /\ s.dead = b
    BY <1>2 DEF NoStart
  <1>5. StartIsSound(s, revokedOnes)
    BY <1>1, <1>4, IdentityAssumption DEF StartIsSound, PresentCertificate, SignedByTrusted
  <1>6. start' = [start EXCEPT ![q] = s] /\ UNCHANGED <<idClock, revokedOnes, macDriver, car>>
    BY <1>1, <1>2 DEF PresentCertificate
  <1> QED
    BY <1>3, <1>5, <1>6, StartChanges

\* The responder calls no certificate good that was revoked when it was presented.
LEMMA SiAnswers ==
    ASSUME SiInv, NEW q \in Starts, NEW reply \in {"good", "revoked", "unknown", "none"}, OcspAnswers(q, reply)
    PROVE  SiInv'
  <1> DEFINE d == EmaidDriver[start[q].contract]
             go == ConfirmedGood(reply) /\ d # NoDriver /\ OptedIn(d)
  <1>1. UNCHANGED <<idClock, revokedOnes, macDriver, car>> /\ start[q].pc = "asking"
        /\ reply \in Replies(start[q].contract)
    BY DEF OcspAnswers
  <1>2. start[q] \in StartSet /\ StartIsSound(start[q], revokedOnes)
    BY SiTyping DEF SiInv, StartsAreSound
  <1>3. CASE ~go
    <2>1. start' = [start EXCEPT ![q] = NoStart]
      BY <1>3 DEF OcspAnswers
    <2> QED
      BY <2>1, <1>1, NoStartFields, NoStartIsSound, StartChanges
  <1>4. CASE go
    <2>1. reply = "good" /\ d # NoDriver
      BY <1>4 DEF ConfirmedGood
    <2>2. start[q].contract \notin revokedOnes
      BY <2>1, <1>1 DEF Replies
    <2>3. ~start[q].dead
      BY <2>2, <1>2 DEF StartIsSound
    <2>4. CASE d \in CarDrivers
      <3>1. PICK e \in CarDrivers : e = d
        BY <2>4
      <3>2. PICK s : s = [start[q] EXCEPT !.pc = "dispatched", !.driver = e]
        OBVIOUS
      <3>3. s \in StartSet
        BY <3>2, <1>2 DEF StartSet
      <3>4. s.pc = "dispatched" /\ s.contract = start[q].contract /\ s.dead = start[q].dead
        BY <3>2, <1>2 DEF StartSet
      <3>5. StartIsSound(s, revokedOnes)
        BY <3>4, <2>3, <1>2 DEF StartIsSound
      <3>6. start' = [start EXCEPT ![q] = s]
        BY <1>4, <3>1, <3>2 DEF OcspAnswers, Dispatched
      <3> QED
        BY <3>3, <3>5, <3>6, <1>1, StartChanges
    <2>5. CASE start[q].contract \in Contracts
      BY <2>1, <2>4, <2>5, IdentityAssumption
    <2> QED
      BY <2>5, <1>1, <1>2 DEF StartSet, StartIsSound
  <1> QED
    BY <1>3, <1>4

LEMMA SiEnds ==
    ASSUME SiInv, NEW q \in Starts,
           SessionGone(q) \/ \E accepted \in BOOLEAN : RemoteStartEnds(q, accepted)
    PROVE  SiInv'
  <1>1. UNCHANGED <<idClock, revokedOnes, macDriver, car>>
    BY DEF SessionGone, RemoteStartEnds
  <1>2. CASE start' = [start EXCEPT ![q] = NoStart]
    BY <1>1, <1>2, NoStartFields, NoStartIsSound, StartChanges
  <1>3. CASE start[q].pc = "dispatched" /\ start' = [start EXCEPT ![q].pc = "started"]
    <2>1. start[q] \in StartSet /\ StartIsSound(start[q], revokedOnes)
      BY SiTyping DEF SiInv, StartsAreSound
    <2>2. PICK s : s = [start[q] EXCEPT !.pc = "started"]
      OBVIOUS
    <2>3. s \in StartSet
      BY <2>1, <2>2 DEF StartSet
    <2>4. s.pc = "started" /\ s.contract = start[q].contract /\ s.dead = start[q].dead
      BY <2>1, <2>2 DEF StartSet
    <2>5. StartIsSound(s, revokedOnes)
      BY <2>1, <2>4, <1>3 DEF StartIsSound
    <2>6. start' = [start EXCEPT ![q] = s]
      BY <2>2, <1>3
    <2> QED
      BY <2>3, <2>5, <2>6, <1>1, StartChanges
  <1> QED
    BY <1>2, <1>3 DEF SessionGone, RemoteStartEnds

\* What is revoked stays revoked.
LEMMA SiRevokes ==
    ASSUME SiInv, IdTick \/ \E c \in Contracts : RevokeContract(c)
    PROVE  SiInv'
  <1>1. /\ macDriver' = macDriver /\ car' = car /\ start' = start
        /\ revokedOnes \subseteq revokedOnes' /\ revokedOnes' \subseteq Contracts
    BY DEF IdTick, RevokeContract, SiInv, SiTypeOK
  <1>2. idClock' \in 0..MaxIdClock
    BY IdentityAssumption DEF IdTick, RevokeContract, SiInv, SiTypeOK
  <1>3. SiTypeOK'
    BY <1>1, <1>2 DEF SiInv, SiTypeOK
  <1> QED
    BY <1>1, <1>3 DEF SiInv, StartsAreSound, StartIsSound

LEMMA SiInvNext == SiInv /\ [SiNext]_siVars => SiInv'
  <1> SUFFICES ASSUME SiInv, [SiNext]_siVars PROVE SiInv'
    OBVIOUS
  <1>1. CASE UNCHANGED siVars
    BY <1>1 DEF SiInv, SiTypeOK, StartsAreSound, siVars
  <1>2. ASSUME NEW q \in Starts, NEW d \in CarDrivers, StartViaApp(q, d) PROVE SiInv'
    BY <1>2, DispatchOfIdle DEF StartViaApp
  <1>3. ASSUME NEW q \in Starts, NEW d \in CarDrivers, NEW token \in QrTokens, NEW secret \in Secrets,
               StartViaQr(q, d, token, secret)
        PROVE  SiInv'
    BY <1>3, DispatchOfIdle DEF StartViaQr
  <1>4. ASSUME NEW q \in Starts, NEW mac \in Macs, StartViaAutocharge(q, mac) PROVE SiInv'
    <2>1. LowerCase(mac) \in Addresses
      BY DEF LowerCase, Macs
    <2>2. macDriver[LowerCase(mac)] \in CarDrivers \cup {NoDriver}
      BY <2>1 DEF SiInv, SiTypeOK
    <2>3. PICK d \in CarDrivers : d = macDriver[LowerCase(mac)]
      BY <1>4, <2>2 DEF StartViaAutocharge
    <2> QED
      BY <1>4, <2>3, DispatchOfIdle DEF StartViaAutocharge
  <1>5. CASE SiNext
    BY <1>2, <1>3, <1>4, <1>5, SiVehicles, SiPresent, SiAnswers, SiEnds, SiRevokes DEF SiNext
  <1> QED
    BY <1>1, <1>5

(* RevokedNeverStarts, for any number of requests, certificates and vehicles:   *)
(* revocations, opt-ins and answers may come in any order while a request waits *)
(* for the responder (plug_and_charge.py), and no certificate revoked before it *)
(* was presented, and none no configured CA signed, starts a session.           *)
THEOREM NoSessionOnRevoked == SiSpec => []RevokedNeverStarts
  <1>1. SiInv => RevokedNeverStarts
    BY DEF SiInv, StartsAreSound, StartIsSound, RevokedNeverStarts
  <1> QED
    BY <1>1, SiInvInit, SiInvNext, PTL DEF SiSpec

(***************************************************************************)
(* ChargerOnboarding                                                       *)
(***************************************************************************)

JobSet == [version: Versions \cup {NoVersion}, stage: Stages \cup {"none"}]
BootSet == [pc: {"closed", "open", "selected", "booted"}, seen: {"none", "pending", "approved"},
            version: Versions \cup {NoVersion}]

\* A report under way is of a version, and it is the latest one's unless the
\* latest was started while something was under way.
ReportIsKnown(j) ==
    j # NoJob => /\ j.version \in Versions /\ j.stage \in Stages
                 /\ j.version = latest \/ latest \in crossed

ReportsAreKnown == ReportIsKnown(job) /\ \A k \in Sockets : ReportIsKnown(notice[k])

\* The charger runs a version before it reports that it has installed it.
InstalledIsReal == \A k \in Sockets : notice[k].stage = "installed" => notice[k].version \in installed

ObInv == ObTypeOK /\ ApprovalSurvives /\ FirmwareStatusIsItsOwn /\ ReportsAreKnown /\ InstalledIsReal

ObTyped ==
    /\ registry \in Registries /\ credential \in BOOLEAN /\ approved \in BOOLEAN
    /\ rowStatus \in {"none", "pending", "approved"}
    /\ rowVersion \in Versions \cup {NoVersion} /\ running \in Versions
    /\ boot \in [Sockets -> BootSet]
    /\ job \in JobSet /\ notice \in [Sockets -> JobSet]
    /\ update \in [Versions -> {"none", "pending"} \cup Stages]
    /\ latest \in Versions \cup {NoVersion}
    /\ started \in 0..MaxUpdates /\ crossed \subseteq Versions /\ installed \subseteq Versions

LEMMA ObTyping == ObTypeOK <=> ObTyped
  BY DEF ObTypeOK, ObTyped, JobSet, BootSet

LEMMA NoJobFields == NoJob \in JobSet /\ NoJob.version = NoVersion /\ NoJob.stage = "none"
  BY DEF NoJob, JobSet

LEMMA NoBootFields == NoBoot \in BootSet
  BY DEF NoBoot, BootSet

LEMMA ObInvInit == ObInit => ObInv
  <1> SUFFICES ASSUME ObInit PROVE ObInv
    OBVIOUS
  <1>0. started \in 0..MaxUpdates /\ boot \in [Sockets -> BootSet]
    BY NoBootFields, OnboardingAssumption DEF ObInit
  <1>1. ObTypeOK
    BY <1>0, NoJobFields DEF ObInit, ObTypeOK, JobSet, BootSet
  <1> QED
    BY <1>1, NoJobFields
    DEF ObInit, ObInv, ApprovalSurvives, FirmwareStatusIsItsOwn, ReportsAreKnown, ReportIsKnown, InstalledIsReal

\* What happens to the registration leaves the firmware's part alone.
LEMMA FirmwareUntouched ==
    ASSUME ObInv, UNCHANGED firmwareVars,
           registry' \in Registries, credential' \in BOOLEAN, approved' \in BOOLEAN,
           rowStatus' \in {"none", "pending", "approved"}, rowVersion' \in Versions \cup {NoVersion},
           boot' \in [Sockets -> BootSet], ApprovalSurvives'
    PROVE  ObInv'
  <1>1. /\ running' = running /\ job' = job /\ update' = update /\ latest' = latest
        /\ notice' = notice /\ started' = started /\ crossed' = crossed /\ installed' = installed
    BY DEF firmwareVars
  <1>2. ObTypeOK'
    BY <1>1 DEF ObInv, ObTypeOK, BootSet
  <1>3. ReportIsKnown(job)' /\ \A k \in Sockets : ReportIsKnown(notice[k])'
    BY <1>1 DEF ObInv, ReportsAreKnown, ReportIsKnown
  <1>4. FirmwareStatusIsItsOwn' /\ InstalledIsReal'
    BY <1>1 DEF ObInv, FirmwareStatusIsItsOwn, InstalledIsReal
  <1> QED
    BY <1>2, <1>3, <1>4 DEF ObInv, ReportsAreKnown

LEMMA ObRegisters ==
    ASSUME ObInv, SeedCharger \/ Approve \/ \E right \in BOOLEAN : SetCredential(right)
    PROVE  ObInv'
  <1>1. UNCHANGED firmwareVars /\ registry' = registry /\ rowVersion' = rowVersion /\ boot' = boot
    BY DEF SeedCharger, Approve, SetCredential
  <1>2. registry' \in Registries /\ rowVersion' \in Versions \cup {NoVersion} /\ boot' \in [Sockets -> BootSet]
    BY <1>1 DEF ObInv, ObTypeOK, BootSet
  <1>3. CASE SeedCharger
    BY <1>1, <1>2, <1>3, FirmwareUntouched DEF SeedCharger, ObInv, ObTypeOK, ApprovalSurvives
  <1>4. CASE Approve
    BY <1>1, <1>2, <1>4, FirmwareUntouched DEF Approve, ObInv, ObTypeOK, ApprovalSurvives
  <1>5. ASSUME NEW right \in BOOLEAN, SetCredential(right) PROVE ObInv'
    <2>1. rowStatus' = rowStatus /\ approved' = approved
      BY <1>5 DEF SetCredential
    <2>2. credential' \in BOOLEAN
      <3>1. CASE registry = "memory" \/ rowStatus # "none"
        BY <1>5, <3>1 DEF SetCredential
      <3>2. CASE ~(registry = "memory" \/ rowStatus # "none")
        BY <1>5, <3>2 DEF SetCredential, ObInv, ObTypeOK
      <3> QED
        BY <3>1, <3>2
    <2> QED
      BY <1>1, <1>2, <2>1, <2>2, FirmwareUntouched DEF ObInv, ObTypeOK, ApprovalSurvives
  <1> QED
    BY <1>3, <1>4, <1>5

\* No boot writes a status over the operator's approval, on either socket.
LEMMA ObBoots ==
    ASSUME ObInv, NEW k \in Sockets,
           Connect(k) \/ Disconnect(k) \/ UpsertOnBoot(k) \/ BootNotification(k) \/ UpdateCharger(k)
    PROVE  ObInv'
  <1>1. UNCHANGED firmwareVars /\ registry' = registry /\ credential' = credential /\ approved' = approved
    BY DEF Connect, Disconnect, UpsertOnBoot, BootNotification, UpdateCharger
  <1>2. registry' \in Registries /\ credential' \in BOOLEAN /\ approved' \in BOOLEAN
    BY <1>1 DEF ObInv, ObTypeOK
  <1>3. boot[k] \in BootSet /\ boot \in [Sockets -> BootSet] /\ running \in Versions
        /\ rowStatus \in {"none", "pending", "approved"} /\ rowVersion \in Versions \cup {NoVersion}
    BY DEF ObInv, ObTypeOK, BootSet
  <1>4. CASE Connect(k)
    <2>1. [boot[k] EXCEPT !.pc = "open"] \in BootSet
      BY <1>3 DEF BootSet
    <2>2. boot' = [boot EXCEPT ![k] = [boot[k] EXCEPT !.pc = "open"]] /\ rowStatus' = rowStatus /\ rowVersion' = rowVersion
      BY <1>4 DEF Connect
    <2>3. boot' \in [Sockets -> BootSet]
      BY <1>3, <2>1, <2>2
    <2> QED
      BY <1>1, <1>2, <1>3, <2>2, <2>3, FirmwareUntouched DEF ObInv, ApprovalSurvives
  <1>5. CASE Disconnect(k)
    <2>2. boot' = [boot EXCEPT ![k] = NoBoot] /\ rowStatus' = rowStatus /\ rowVersion' = rowVersion
      BY <1>5 DEF Disconnect
    <2>3. boot' \in [Sockets -> BootSet]
      BY <1>3, <2>2, NoBootFields
    <2> QED
      BY <1>1, <1>2, <1>3, <2>2, <2>3, FirmwareUntouched DEF ObInv, ApprovalSurvives
  <1>6. CASE UpsertOnBoot(k)
    <2>1. rowStatus' \in {"none", "pending", "approved"} /\ (rowStatus = "approved" => rowStatus' = "approved")
      BY <1>3, <1>6 DEF UpsertOnBoot
    <2>2. PICK s \in {"none", "pending", "approved"} : s = rowStatus'
      BY <2>1
    <2>3. boot' = [boot EXCEPT ![k] = [pc |-> "booted", seen |-> s, version |-> running]] /\ rowVersion' = running
      BY <1>6, <2>2 DEF UpsertOnBoot
    <2>4. [pc |-> "booted", seen |-> s, version |-> running] \in BootSet
      BY <1>3, <2>2 DEF BootSet
    <2>5. boot' \in [Sockets -> BootSet]
      BY <1>3, <2>3, <2>4
    <2> QED
      BY <1>1, <1>2, <1>3, <2>1, <2>3, <2>5, FirmwareUntouched DEF ObInv, ApprovalSurvives
  <1>7. CASE BootNotification(k)
    <2>1. [pc |-> "selected", seen |-> rowStatus, version |-> running] \in BootSet
      BY <1>3 DEF BootSet
    <2>2. boot' = [boot EXCEPT ![k] = [pc |-> "selected", seen |-> rowStatus, version |-> running]]
          /\ rowStatus' = rowStatus /\ rowVersion' = rowVersion
      BY <1>7 DEF BootNotification
    <2>3. boot' \in [Sockets -> BootSet]
      BY <1>3, <2>1, <2>2
    <2> QED
      BY <1>1, <1>2, <1>3, <2>2, <2>3, FirmwareUntouched DEF ObInv, ApprovalSurvives
  <1>8. CASE UpdateCharger(k)
    <2>1. [boot[k] EXCEPT !.pc = "booted"] \in BootSet /\ boot[k].version \in Versions \cup {NoVersion}
      BY <1>3 DEF BootSet
    <2>2. boot' = [boot EXCEPT ![k] = [boot[k] EXCEPT !.pc = "booted"]] /\ rowStatus' = rowStatus
          /\ rowVersion' = boot[k].version
      BY <1>8 DEF UpdateCharger, StatusAfterBoot
    <2>3. boot' \in [Sockets -> BootSet]
      BY <1>3, <2>1, <2>2
    <2> QED
      BY <1>1, <1>2, <1>3, <2>1, <2>2, <2>3, FirmwareUntouched DEF ObInv, ApprovalSurvives
  <1> QED
    BY <1>4, <1>5, <1>6, <1>7, <1>8

\* Starting an update while nothing is under way is the only way off crossed.
LEMMA ObStarts ==
    ASSUME ObInv, NEW v \in Versions, StartFirmwareUpdate(v)
    PROVE  ObInv'
  <1>1. /\ registry' = registry /\ credential' = credential /\ rowStatus' = rowStatus /\ rowVersion' = rowVersion
        /\ boot' = boot /\ approved' = approved /\ running' = running /\ notice' = notice /\ installed' = installed
        /\ latest' = v /\ update' = [update EXCEPT ![v] = "pending"] /\ started < MaxUpdates /\ started' = started + 1
    BY DEF StartFirmwareUpdate, registryVars, LatestVersion
  <1>2. PICK j \in JobSet : j = [version |-> v, stage |-> "downloading"]
    BY DEF JobSet, Stages
  <1>3. j.version = v /\ j.stage = "downloading"
    BY <1>2
  <1>4. job' = j \/ job' = job
    BY <1>2 DEF StartFirmwareUpdate
  <1>5. crossed' = IF UpdateUnderWay THEN crossed \cup {v} ELSE crossed \ {v}
    BY DEF StartFirmwareUpdate
  <1>6. update' \in [Versions -> {"none", "pending"} \cup Stages] /\ update'[v] = "pending"
        /\ \A w \in Versions \ {v} : update'[w] = update[w]
    BY <1>1 DEF ObInv, ObTypeOK
  <1>7. crossed' \subseteq Versions
    BY <1>5 DEF ObInv, ObTypeOK
  <1>8. started' \in 0..MaxUpdates
    BY <1>1, OnboardingAssumption DEF ObInv, ObTypeOK
  <1>9. job' \in JobSet
    BY <1>2, <1>4, ObTyping DEF ObInv, ObTyped
  <1>10. ObTypeOK'
    BY <1>1, <1>6, <1>7, <1>8, <1>9 DEF ObInv, ObTypeOK, JobSet
  <1>11. ApprovalSurvives' /\ InstalledIsReal'
    BY <1>1 DEF ObInv, ApprovalSurvives, InstalledIsReal
  <1>12. FirmwareStatusIsItsOwn'
    <2> SUFFICES ASSUME NEW w \in Versions, update'[w] = "installed" PROVE w \in installed' \cup crossed'
      BY DEF FirmwareStatusIsItsOwn
    <2>1. w # v
      BY <1>6
    <2>2. w \in installed \cup crossed
      BY <1>6, <2>1 DEF ObInv, FirmwareStatusIsItsOwn
    <2> QED
      BY <1>1, <1>5, <2>1, <2>2
  <1>13. ReportsAreKnown'
    <2>1. CASE UpdateUnderWay
      BY <1>1, <1>3, <1>4, <1>5, <2>1 DEF ObInv, ReportsAreKnown, ReportIsKnown, Stages
    <2>2. CASE ~UpdateUnderWay
      BY <1>1, <1>3, <1>4, <2>2 DEF UpdateUnderWay, ReportsAreKnown, ReportIsKnown, Stages
    <2> QED
      BY <2>1, <2>2
  <1> QED
    BY <1>10, <1>11, <1>12, <1>13 DEF ObInv

\* What is left of the invariant when a socket's report is the only one to change.
LEMMA NoticeChanges ==
    ASSUME ObInv, NEW k \in Sockets, NEW q \in JobSet, notice' = [notice EXCEPT ![k] = q]
    PROVE  /\ notice' \in [Sockets -> JobSet] /\ notice'[k] = q
           /\ \A m \in Sockets : m # k => notice'[m] = notice[m]
  <1>1. notice \in [Sockets -> JobSet]
    BY ObTyping DEF ObInv, ObTyped
  <1> QED
    BY <1>1

LEMMA ObReports ==
    ASSUME ObInv, NEW k \in Sockets, FirmwareStatus(k)
    PROVE  ObInv'
  <1>1. /\ registry' = registry /\ credential' = credential /\ rowStatus' = rowStatus /\ rowVersion' = rowVersion
        /\ boot' = boot /\ approved' = approved /\ update' = update /\ latest' = latest /\ started' = started
        /\ crossed' = crossed /\ notice' = [notice EXCEPT ![k] = job] /\ job # NoJob
    BY DEF FirmwareStatus, registryVars
  <1>2. job \in JobSet /\ job.version \in Versions /\ job.stage \in Stages /\ (job.version = latest \/ latest \in crossed)
    BY <1>1, ObTyping DEF ObInv, ObTyped, ReportsAreKnown, ReportIsKnown
  <1>3. NextStage(job.stage) \subseteq Stages
    BY DEF NextStage, Stages
  <1>4. job' = NoJob \/ (job' \in JobSet /\ job'.version = job.version /\ job'.stage \in Stages)
    <2>1. CASE job' = NoJob
      BY <2>1
    <2>2. CASE job' # NoJob
      <3>1. job' \in [version: {job.version}, stage: NextStage(job.stage)]
        BY <2>2 DEF FirmwareStatus
      <3> QED
        BY <3>1, <1>2, <1>3 DEF JobSet
    <2> QED
      BY <2>1, <2>2
  <1>5. /\ running' \in Versions /\ installed' \subseteq Versions /\ installed \subseteq installed'
        /\ job.stage = "installed" => job.version \in installed'
    <2>1. CASE job.stage = "installed"
      BY <2>1, <1>2 DEF FirmwareStatus, ObInv, ObTypeOK
    <2>2. CASE job.stage # "installed"
      BY <2>2 DEF FirmwareStatus, ObInv, ObTypeOK
    <2> QED
      BY <2>1, <2>2
  <1>6. /\ notice' \in [Sockets -> JobSet] /\ notice'[k] = job
        /\ \A m \in Sockets : m # k => notice'[m] = notice[m]
    BY <1>1, <1>2, NoticeChanges
  <1>7. ObTypeOK'
    <2>1. job' \in JobSet
      BY <1>4, NoJobFields
    <2> QED
      BY <1>1, <1>5, <1>6, <2>1 DEF ObInv, ObTypeOK, JobSet
  <1>8. ApprovalSurvives' /\ InstalledIsReal' /\ FirmwareStatusIsItsOwn'
    BY <1>1, <1>5, <1>6 DEF ObInv, ApprovalSurvives, InstalledIsReal, FirmwareStatusIsItsOwn
  <1>9. ReportsAreKnown'
    BY <1>1, <1>2, <1>4, <1>6 DEF ObInv, ReportsAreKnown, ReportIsKnown
  <1> QED
    BY <1>7, <1>8, <1>9 DEF ObInv

\* A report that is booked, on the latest version, whose own it is unless that
\* was started across it; or one that is lost with its socket.
LEMMA ObBooks ==
    ASSUME ObInv, NEW k \in Sockets, FirmwareStatusBooked(k) \/ FirmwareStatusLost(k)
    PROVE  ObInv'
  <1>1. /\ registry' = registry /\ credential' = credential /\ rowStatus' = rowStatus /\ rowVersion' = rowVersion
        /\ approved' = approved /\ running' = running /\ job' = job /\ latest' = latest
        /\ started' = started /\ crossed' = crossed /\ installed' = installed
        /\ notice[k] # NoJob /\ notice' = [notice EXCEPT ![k] = NoJob]
    BY DEF FirmwareStatusBooked, FirmwareStatusLost, registryVars
  <1>2. /\ notice[k].version \in Versions /\ notice[k].stage \in Stages
        /\ notice[k].version = latest \/ latest \in crossed
        /\ notice[k].stage = "installed" => notice[k].version \in installed
    BY <1>1 DEF ObInv, ReportsAreKnown, ReportIsKnown, InstalledIsReal
  <1>3. /\ notice' \in [Sockets -> JobSet] /\ notice'[k] = NoJob
        /\ \A m \in Sockets : m # k => notice'[m] = notice[m]
    BY <1>1, NoJobFields, NoticeChanges
  <1>4. boot' \in [Sockets -> BootSet]
    <2>1. boot \in [Sockets -> BootSet]
      BY ObTyping DEF ObInv, ObTyped
    <2> QED
      BY <2>1, NoBootFields DEF FirmwareStatusBooked, FirmwareStatusLost, registryVars
  <1>5. ReportsAreKnown' /\ InstalledIsReal' /\ ApprovalSurvives'
    BY <1>1, <1>3, NoJobFields DEF ObInv, ReportsAreKnown, ReportIsKnown, InstalledIsReal, ApprovalSurvives
  <1>6. CASE update' = update
    <2>1. ObTypeOK'
      BY <1>1, <1>3, <1>4, <1>6 DEF ObInv, ObTypeOK, JobSet, BootSet
    <2> QED
      BY <1>1, <1>5, <1>6, <2>1 DEF ObInv, FirmwareStatusIsItsOwn
  <1>7. CASE update' # update
    <2>1. update' = [update EXCEPT ![latest] = notice[k].stage] /\ latest \in Versions
      BY <1>7 DEF FirmwareStatusBooked, FirmwareStatusLost, ObInv, ObTypeOK
    <2>2. update' \in [Versions -> {"none", "pending"} \cup Stages] /\ update'[latest] = notice[k].stage
          /\ \A w \in Versions \ {latest} : update'[w] = update[w]
      BY <1>2, <2>1 DEF ObInv, ObTypeOK
    <2>3. FirmwareStatusIsItsOwn'
      <3> SUFFICES ASSUME NEW w \in Versions, update'[w] = "installed" PROVE w \in installed \cup crossed
        BY <1>1 DEF FirmwareStatusIsItsOwn
      <3>1. CASE w = latest
        BY <1>2, <2>2, <3>1
      <3>2. CASE w # latest
        BY <2>2, <3>2 DEF ObInv, FirmwareStatusIsItsOwn
      <3> QED
        BY <3>1, <3>2
    <2>4. ObTypeOK'
      BY <1>1, <1>3, <1>4, <2>2 DEF ObInv, ObTypeOK, JobSet, BootSet
    <2> QED
      BY <1>5, <2>3, <2>4 DEF ObInv
  <1> QED
    BY <1>6, <1>7

LEMMA ObInvNext == ObInv /\ [ObNext]_obVars => ObInv'
  <1> SUFFICES ASSUME ObInv, [ObNext]_obVars PROVE ObInv'
    OBVIOUS
  <1>1. CASE UNCHANGED obVars
    <2>1. UNCHANGED firmwareVars /\ UNCHANGED registryVars
      BY <1>1 DEF obVars, firmwareVars, registryVars
    <2> QED
      BY <2>1, FirmwareUntouched DEF ObInv, ObTypeOK, BootSet, registryVars, ApprovalSurvives
  <1>2. CASE ObNext
    BY <1>2, ObRegisters, ObBoots, ObStarts, ObReports, ObBooks DEF ObNext
  <1> QED
    BY <1>1, <1>2

(* ApprovalSurvives, for any number of sockets and either store: no interleaving *)
(* of boots, their two round trips (supabase_ocpp.py) and the operator's         *)
(* approval takes the approval back.                                             *)
THEOREM ApprovalIsKept == ObSpec => []ApprovalSurvives
  <1>1. ObInv => ApprovalSurvives
    BY DEF ObInv
  <1> QED
    BY <1>1, ObInvInit, ObInvNext, PTL DEF ObSpec

(* FirmwareStatusIsItsOwn, for any number of versions and updates: a report      *)
(* that names no version (message_handlers.py) is booked on another's update     *)
(* only when that one was started while an update was under way.                 *)
THEOREM InstalledOnlyWhenCrossed == ObSpec => []FirmwareStatusIsItsOwn
  <1>1. ObInv => FirmwareStatusIsItsOwn
    BY DEF ObInv
  <1> QED
    BY <1>1, ObInvInit, ObInvNext, PTL DEF ObSpec

(***************************************************************************)
(* TariffCatalogue                                                         *)
(***************************************************************************)

ComponentSet == [version: 1..MaxVersion, type: ComponentTypes]
EditSet == [pc: {"idle", "named", "cleared"}, version: 0..MaxVersion, rest: SUBSET ComponentTypes, alone: BOOLEAN]
ReadSet == [pc: {"idle", "row", "done"}, version: 0..MaxVersion, comps: SUBSET ComponentSet, undisturbed: BOOLEAN]

Prices(types) == types \cap {"energy", "time"} # {}

TcTyped ==
    /\ store \in TariffStores /\ row \in 0..MaxVersion /\ saves \in 0..MaxVersion
    /\ comps \subseteq ComponentSet /\ bodies \in [1..MaxVersion -> SUBSET ComponentTypes]
    /\ edit \in [Editors -> EditSet] /\ torn \in BOOLEAN /\ read \in [Readers -> ReadSet]

\* The row carries the version begun last, and every version can price a session.
RowIsLatest ==
    /\ row = saves /\ (row = 0 => comps = {})
    /\ \A v \in 1..saves : Prices(bodies[v])

NoSave(e) == edit[e].pc = "idle"

\* What a save under way has done so far when no other overlaps it.
SaveIsExact(e) ==
    /\ \A f \in Editors : f # e => NoSave(f)
    /\ edit[e].version = row /\ edit[e].rest \subseteq bodies[row]
    /\ edit[e].pc = "named" => edit[e].rest = bodies[row]
    /\ edit[e].pc = "cleared" => comps = Components(row, bodies[row] \ edit[e].rest)

\* In memory no save is ever under way; with Supabase a save that overlaps
\* another has left the tariff torn.
SavesAreExact ==
    \A e \in Editors :
        /\ store = "memory" => NoSave(e)
        /\ NoSave(e) => edit[e] = NoEdit
        /\ ~NoSave(e) => row # 0 /\ edit[e].version \in 1..MaxVersion
        /\ ~NoSave(e) /\ edit[e].alone => SaveIsExact(e)
        /\ ~NoSave(e) /\ ~torn => edit[e].alone

\* Between saves a tariff that is not torn is whole.
RestsWhole == ~torn /\ row # 0 /\ (\A e \in Editors : NoSave(e)) => comps = Components(row, bodies[row])

ReadIsWhole(r) ==
    /\ r.pc = "row" /\ r.undisturbed => r.version = row /\ row # 0 /\ comps = Components(row, bodies[row])
    /\ r.pc = "done" /\ r.undisturbed => r.version \in 1..saves /\ r.comps = Components(r.version, bodies[r.version])

ReadsAreWhole == \A k \in Readers : ReadIsWhole(read[k])

TcInv == TcTyped /\ RowIsLatest /\ SavesAreExact /\ RestsWhole /\ ReadsAreWhole

LEMMA TcConstants == MaxVersion \in Nat \ {0} /\ TariffStores \subseteq {"memory", "supabase"} /\ 0 \in 0..MaxVersion
  BY TariffCatalogueAssumption

LEMMA NoEditFields ==
    NoEdit \in EditSet /\ NoEdit.pc = "idle" /\ NoEdit.alone = FALSE /\ [NoEdit EXCEPT !.alone = FALSE] = NoEdit
  <1>1. NoEdit \in EditSet /\ NoEdit.pc = "idle" /\ NoEdit.alone = FALSE
    BY TcConstants DEF NoEdit, EditSet
  <1>2. \A x \in EditSet : x.alone = FALSE => [x EXCEPT !.alone = FALSE] = x
    BY DEF EditSet
  <1>3. [NoEdit EXCEPT !.alone = FALSE] = NoEdit
    BY <1>1, <1>2
  <1> QED
    BY <1>1, <1>3

LEMMA NoReadFields == NoRead \in ReadSet /\ NoRead.pc = "idle"
  BY TcConstants DEF NoRead, ReadSet

LEMMA ComponentsAdd ==
    ASSUME NEW v, NEW A, NEW B
    PROVE  Components(v, A) \cup Components(v, B) = Components(v, A \cup B)
  BY DEF Components

LEMMA ComponentsTyped ==
    /\ \A v \in 1..MaxVersion, A \in SUBSET ComponentTypes : Components(v, A) \subseteq ComponentSet
    /\ \A v : Components(v, {}) = {}
  BY DEF Components, ComponentSet

\* A read whose row was read before the change counts as disturbed, and one that
\* is done keeps what it has.
LEMMA DisturbedReads ==
    ASSUME TcTyped, ReadsAreWhole, read' = Disturbed, saves' \in Nat, saves \in Nat, saves <= saves',
           \A v \in 1..saves : bodies'[v] = bodies[v]
    PROVE  read' \in [Readers -> ReadSet] /\ ReadsAreWhole'
  <1>1. ASSUME NEW k \in Readers PROVE read'[k] \in ReadSet /\ ReadIsWhole(read[k])'
    <2>1. read[k] \in ReadSet /\ ReadIsWhole(read[k])
      BY DEF TcTyped, ReadsAreWhole
    <2>2. CASE read[k].pc = "row"
      <3>1. read'[k] = [read[k] EXCEPT !.undisturbed = FALSE]
        BY <2>2 DEF Disturbed
      <3>2. read'[k] \in ReadSet /\ read'[k].undisturbed = FALSE
        BY <2>1, <3>1 DEF ReadSet
      <3> QED
        BY <3>2 DEF ReadIsWhole
    <2>3. CASE read[k].pc # "row"
      <3>1. read'[k] = read[k]
        BY <2>3 DEF Disturbed
      <3>2. read[k].version \in 1..saves => read[k].version \in 1..saves' /\ bodies'[read[k].version] = bodies[read[k].version]
        OBVIOUS
      <3> QED
        BY <2>1, <2>3, <3>1, <3>2 DEF ReadIsWhole
    <2> QED
      BY <2>2, <2>3
  <1>2. read' \in [Readers -> ReadSet]
    <2>1. read' = [k \in Readers |-> read'[k]]
      BY DEF Disturbed
    <2> QED
      BY <1>1, <2>1
  <1> QED
    BY <1>1, <1>2 DEF ReadsAreWhole

LEMMA TcInvInit == TcInit => TcInv
  <1> SUFFICES ASSUME TcInit PROVE TcInv
    OBVIOUS
  <1>1. TcTyped
    <2>1. edit \in [Editors -> EditSet] /\ read \in [Readers -> ReadSet]
      BY NoEditFields, NoReadFields DEF TcInit
    <2>2. row \in 0..MaxVersion /\ saves \in 0..MaxVersion /\ torn \in BOOLEAN
      BY TcConstants DEF TcInit
    <2> QED
      BY <2>1, <2>2 DEF TcInit, TcTyped
  <1>2. RowIsLatest
    BY DEF TcInit, RowIsLatest
  <1>3. SavesAreExact
    BY NoEditFields DEF TcInit, SavesAreExact, NoSave
  <1>4. RestsWhole
    BY DEF TcInit, RestsWhole
  <1>5. ReadsAreWhole
    BY NoReadFields DEF TcInit, ReadsAreWhole, ReadIsWhole
  <1> QED
    BY <1>1, <1>2, <1>3, <1>4, <1>5 DEF TcInv

\* A save that begins is exact when it is alone, and leaves the others not alone.
LEMMA TcBegins ==
    ASSUME TcInv, NEW e \in Editors, NEW types \in SUBSET ComponentTypes, NEW next \in {"named", "cleared"},
           NEW step, next = "cleared" => row = 0, BeginSave(e, types, step, next)
    PROVE  TcInv'
  <1>1. /\ saves \in Nat /\ saves < MaxVersion /\ saves' = saves + 1 /\ row' = saves + 1 /\ store' = store
        /\ bodies' = [bodies EXCEPT ![saves + 1] = types] /\ read' = Disturbed /\ Prices(types)
        /\ row = saves
    BY TcConstants DEF BeginSave, ValidComponents, Prices, TcInv, TcTyped, RowIsLatest
  <1>2. PICK v \in 1..MaxVersion : v = saves + 1
    BY <1>1, TcConstants
  <1>3. v # 0 /\ v \in 0..MaxVersion
    BY <1>2
  <1>4. /\ bodies' \in [1..MaxVersion -> SUBSET ComponentTypes] /\ bodies'[v] = types
        /\ \A w \in 1..saves : bodies'[w] = bodies[w]
    BY <1>1, <1>2 DEF TcInv, TcTyped
  <1>5. read' \in [Readers -> ReadSet] /\ ReadsAreWhole'
    BY <1>1, <1>4, DisturbedReads DEF TcInv
  <1>6. torn' \in BOOLEAN
    BY DEF BeginSave
  <1>7. Prices(bodies'[v]) /\ \A w \in 1..saves' : w = v \/ w \in 1..saves
    BY <1>1, <1>2, <1>4
  <1>8. \A w \in 1..saves' : Prices(bodies'[w])
    BY <1>4, <1>7 DEF TcInv, RowIsLatest
  <1>9. RowIsLatest'
    BY <1>1, <1>2, <1>3, <1>8 DEF RowIsLatest
  <1>10. CASE store = "memory"
    <2>1. comps' = Components(v, types) /\ edit' = edit
      BY <1>2, <1>10 DEF BeginSave
    <2>2. comps' \subseteq ComponentSet
      BY <2>1, ComponentsTyped
    <2>3. TcTyped'
      BY <1>1, <1>2, <1>3, <1>4, <1>5, <1>6, <2>1, <2>2 DEF TcInv, TcTyped
    <2>4. SavesAreExact'
      BY <1>1, <1>10, <2>1 DEF TcInv, SavesAreExact, NoSave
    <2>5. RestsWhole'
      BY <1>1, <1>2, <1>4, <2>1 DEF RestsWhole
    <2> QED
      BY <1>5, <1>9, <2>3, <2>4, <2>5 DEF TcInv
  <1>11. CASE store # "memory"
    <2>1. PICK lone \in BOOLEAN : lone = (Editing = {})
      <3>1. (Editing = {}) \in BOOLEAN
        OBVIOUS
      <3> QED
        BY <3>1, Zenon
    <2>2. PICK x \in EditSet : x = [pc |-> next, version |-> v, rest |-> types, alone |-> lone]
      BY <1>3 DEF EditSet
    <2>3. x.pc = next /\ x.version = v /\ x.rest = types /\ x.alone = lone
      BY <2>2
    <2>4. /\ edit' = [f \in Editors |-> IF f = e THEN x ELSE [edit[f] EXCEPT !.alone = FALSE]]
          /\ comps' = comps
      BY <1>2, <1>11, <2>1, <2>2 DEF BeginSave
    <2>5. \A f \in Editors : edit[f] \in EditSet /\ [edit[f] EXCEPT !.alone = FALSE] \in EditSet
      BY DEF TcInv, TcTyped, EditSet
    <2>6. \A f \in Editors : f # e => /\ edit'[f].alone = FALSE /\ edit'[f].pc = edit[f].pc
                                      /\ edit'[f].version = edit[f].version
                                      /\ (edit[f] = NoEdit => edit'[f] = NoEdit)
      BY <2>4, <2>5, NoEditFields DEF EditSet
    <2>7. edit'[e] = x
      BY <2>4
    <2>8. edit' \in [Editors -> EditSet]
      BY <2>4, <2>5
    <2>9. TcTyped'
      BY <1>1, <1>2, <1>3, <1>4, <1>5, <1>6, <2>4, <2>8 DEF TcInv, TcTyped
    <2>10. lone => \A f \in Editors : NoSave(f)
      BY <2>1, NoEditFields DEF Editing, NoSave
    <2>11. lone => SaveIsExact(e)'
      <3> SUFFICES ASSUME lone PROVE SaveIsExact(e)'
        OBVIOUS
      <3>1. \A f \in Editors : f # e => NoSave(f)'
        BY <2>6, <2>10 DEF NoSave
      <3>2. edit'[e].version = row' /\ bodies'[row'] = types /\ edit'[e].rest = types
        BY <1>1, <1>2, <1>4, <2>3, <2>7
      <3>3. next = "cleared" => comps' = {}
        BY <2>4 DEF TcInv, RowIsLatest
      <3>4. Components(row', types \ types) = {}
        <4>1. types \ types = {}
          OBVIOUS
        <4> QED
          BY <4>1, ComponentsTyped
      <3> QED
        BY <2>3, <2>7, <3>1, <3>2, <3>3, <3>4 DEF SaveIsExact
    <2>12. ~torn' => lone
      BY <2>1 DEF BeginSave
    <2>13. SavesAreExact'
      <3> SUFFICES ASSUME NEW f \in Editors
                   PROVE  /\ store' = "memory" => NoSave(f)'
                          /\ NoSave(f)' => edit'[f] = NoEdit
                          /\ ~NoSave(f)' => row' # 0 /\ edit'[f].version \in 1..MaxVersion
                          /\ ~NoSave(f)' /\ edit'[f].alone => SaveIsExact(f)'
                          /\ ~NoSave(f)' /\ ~torn' => edit'[f].alone
        BY DEF SavesAreExact
      <3>1. CASE f = e
        BY <1>1, <1>2, <1>3, <1>11, <2>3, <2>7, <2>11, <2>12, <3>1 DEF NoSave
      <3>2. CASE f # e
        <4>1. ~torn' => NoSave(f)'
          BY <2>6, <2>10, <2>12, <3>2 DEF NoSave
        <4> QED
          BY <1>1, <1>2, <1>3, <1>11, <2>6, <3>2, <4>1 DEF TcInv, SavesAreExact, NoSave
      <3> QED
        BY <3>1, <3>2
    <2>14. RestsWhole'
      BY <2>3, <2>7 DEF RestsWhole, NoSave
    <2> QED
      BY <1>5, <1>9, <2>9, <2>13, <2>14 DEF TcInv
  <1> QED
    BY <1>10, <1>11

LEMMA TcDeletes ==
    ASSUME TcInv, NEW e \in Editors, DeleteComponents(e)
    PROVE  TcInv'
  <1>1. /\ edit[e].pc = "named" /\ comps' = {} /\ edit' = [edit EXCEPT ![e] = [edit[e] EXCEPT !.pc = "cleared"]]
        /\ read' = Disturbed /\ store' = store /\ row' = row /\ saves' = saves /\ bodies' = bodies /\ torn' = torn
    BY DEF DeleteComponents, ClearedComponents
  <1>2. edit[e] \in EditSet /\ ~NoSave(e)
    BY <1>1 DEF TcInv, TcTyped, NoSave
  <1>3. PICK x \in EditSet : x = [edit[e] EXCEPT !.pc = "cleared"]
    BY <1>2 DEF EditSet
  <1>4. x.pc = "cleared" /\ x.version = edit[e].version /\ x.rest = edit[e].rest /\ x.alone = edit[e].alone
    BY <1>2, <1>3 DEF EditSet
  <1>5. edit' \in [Editors -> EditSet] /\ edit'[e] = x /\ \A f \in Editors : f # e => edit'[f] = edit[f]
    BY <1>1, <1>3 DEF TcInv, TcTyped
  <1>6. saves \in Nat
    BY TcConstants DEF TcInv, TcTyped
  <1>7. read' \in [Readers -> ReadSet] /\ ReadsAreWhole'
    BY <1>1, <1>6, DisturbedReads DEF TcInv
  <1>8. TcTyped'
    BY <1>1, <1>5, <1>7 DEF TcInv, TcTyped
  <1>9. RowIsLatest' /\ RestsWhole'
    BY <1>1, <1>4, <1>5 DEF TcInv, RowIsLatest, RestsWhole, NoSave
  <1>10. edit[e].alone => SaveIsExact(e)'
    <2> SUFFICES ASSUME edit[e].alone PROVE SaveIsExact(e)'
      OBVIOUS
    <2>1. SaveIsExact(e)
      BY <1>2 DEF TcInv, SavesAreExact
    <2>2. Components(row, bodies[row] \ bodies[row]) = {}
      <3>1. bodies[row] \ bodies[row] = {}
        OBVIOUS
      <3> QED
        BY <3>1, ComponentsTyped
    <2> QED
      BY ZenonT(40), <1>1, <1>4, <1>5, <2>1, <2>2 DEF SaveIsExact, NoSave
  <1>11. SavesAreExact'
    <2> SUFFICES ASSUME NEW f \in Editors
                 PROVE  /\ store' = "memory" => NoSave(f)'
                        /\ NoSave(f)' => edit'[f] = NoEdit
                        /\ ~NoSave(f)' => row' # 0 /\ edit'[f].version \in 1..MaxVersion
                        /\ ~NoSave(f)' /\ edit'[f].alone => SaveIsExact(f)'
                        /\ ~NoSave(f)' /\ ~torn' => edit'[f].alone
      BY DEF SavesAreExact
    <2>1. CASE f = e
      BY <1>1, <1>2, <1>4, <1>5, <1>10, <2>1 DEF TcInv, SavesAreExact, NoSave
    <2>2. CASE f # e
      <3>1. ~NoSave(f) => ~edit[f].alone
        BY <1>2, <2>2 DEF TcInv, SavesAreExact, SaveIsExact
      <3> QED
        BY <1>1, <1>5, <2>2, <3>1 DEF TcInv, SavesAreExact, NoSave
    <2> QED
      BY <2>1, <2>2
  <1> QED
    BY <1>7, <1>8, <1>9, <1>11 DEF TcInv

\* The last component makes the tariff whole when the save was alone.
LEMMA TcInserts ==
    ASSUME TcInv, NEW e \in Editors, NEW type \in ComponentTypes, InsertComponent(e, type)
    PROVE  TcInv'
  <1>1. /\ edit[e].pc = "cleared" /\ type \in edit[e].rest /\ comps' = comps \cup Components(edit[e].version, {type})
        /\ read' = Disturbed /\ store' = store /\ row' = row /\ saves' = saves /\ bodies' = bodies
    BY DEF InsertComponent
  <1>2. edit[e] \in EditSet /\ ~NoSave(e) /\ row # 0 /\ edit[e].version \in 1..MaxVersion /\ store # "memory"
    BY <1>1 DEF TcInv, TcTyped, SavesAreExact, NoSave
  <1>3. saves \in Nat
    BY TcConstants DEF TcInv, TcTyped
  <1>4. read' \in [Readers -> ReadSet] /\ ReadsAreWhole'
    BY <1>1, <1>3, DisturbedReads DEF TcInv
  <1>5. comps' \subseteq ComponentSet
    <2>1. {type} \in SUBSET ComponentTypes
      OBVIOUS
    <2>2. Components(edit[e].version, {type}) \subseteq ComponentSet
      BY <1>2, <2>1, ComponentsTyped
    <2> QED
      BY <1>1, <2>2 DEF TcInv, TcTyped
  <1>6. RowIsLatest'
    BY <1>1, <1>2 DEF TcInv, RowIsLatest
  <1>7. edit[e].alone => /\ SaveIsExact(e) /\ row \in 1..MaxVersion
                         /\ comps' = Components(row, bodies[row] \ (edit[e].rest \ {type}))
    <2> SUFFICES ASSUME edit[e].alone
                 PROVE  /\ SaveIsExact(e) /\ row \in 1..MaxVersion
                        /\ comps' = Components(row, bodies[row] \ (edit[e].rest \ {type}))
      OBVIOUS
    <2>1. SaveIsExact(e)
      BY <1>2 DEF TcInv, SavesAreExact
    <2>2. edit[e].version = row /\ edit[e].rest \subseteq bodies[row]
          /\ comps = Components(row, bodies[row] \ edit[e].rest)
      BY <1>1, <2>1 DEF SaveIsExact
    <2>3. (bodies[row] \ edit[e].rest) \cup {type} = bodies[row] \ (edit[e].rest \ {type})
      BY <1>1, <2>2
    <2>4. comps' = Components(row, (bodies[row] \ edit[e].rest) \cup {type})
      BY <1>1, <2>2, ComponentsAdd
    <2> QED
      BY <1>2, <2>1, <2>2, <2>3, <2>4
  <1>8. \A f \in Editors : f # e /\ ~NoSave(f) => ~edit[f].alone /\ ~edit[e].alone /\ torn
    BY <1>2 DEF TcInv, SavesAreExact, SaveIsExact
  <1>9. CASE edit[e].rest = {type}
    <2>1. edit' = [edit EXCEPT ![e] = NoEdit] /\ torn' = (torn /\ ~edit[e].alone)
      BY <1>9 DEF InsertComponent
    <2>2. edit' \in [Editors -> EditSet] /\ edit'[e] = NoEdit /\ \A f \in Editors : f # e => edit'[f] = edit[f]
      BY <2>1, NoEditFields DEF TcInv, TcTyped
    <2>3. torn' \in BOOLEAN /\ (~torn' => ~torn \/ edit[e].alone) /\ (torn /\ ~edit[e].alone => torn')
      BY <2>1
    <2>4. TcTyped'
      BY <1>1, <1>4, <1>5, <2>2, <2>3 DEF TcInv, TcTyped
    <2>5. SavesAreExact'
      <3> SUFFICES ASSUME NEW f \in Editors
                   PROVE  /\ store' = "memory" => NoSave(f)'
                          /\ NoSave(f)' => edit'[f] = NoEdit
                          /\ ~NoSave(f)' => row' # 0 /\ edit'[f].version \in 1..MaxVersion
                          /\ ~NoSave(f)' /\ edit'[f].alone => SaveIsExact(f)'
                          /\ ~NoSave(f)' /\ ~torn' => edit'[f].alone
        BY DEF SavesAreExact
      <3>1. CASE f = e
        BY <2>2, <3>1, NoEditFields DEF NoSave
      <3>2. CASE f # e
        BY <1>1, <1>2, <1>8, <2>2, <2>3, <3>2 DEF TcInv, SavesAreExact, NoSave
      <3> QED
        BY <3>1, <3>2
    <2>6. RestsWhole'
      <3> SUFFICES ASSUME ~torn' PROVE comps' = Components(row, bodies[row])
        BY <1>1 DEF RestsWhole
      <3>1. edit[e].alone
        BY <1>2, <2>3 DEF TcInv, SavesAreExact
      <3>2. bodies[row] \ (edit[e].rest \ {type}) = bodies[row]
        BY <1>9
      <3> QED
        BY <1>7, <3>1, <3>2
    <2> QED
      BY <1>4, <1>6, <2>4, <2>5, <2>6 DEF TcInv
  <1>10. CASE edit[e].rest # {type}
    <2>1. edit' = [edit EXCEPT ![e] = [edit[e] EXCEPT !.rest = edit[e].rest \ {type}]] /\ torn' = torn
      BY <1>10 DEF InsertComponent
    <2>2. PICK rest \in SUBSET ComponentTypes : rest = edit[e].rest \ {type}
      BY <1>2 DEF EditSet
    <2>3. PICK x \in EditSet : x = [edit[e] EXCEPT !.rest = rest]
      BY <1>2, <2>2 DEF EditSet
    <2>4. x.pc = "cleared" /\ x.version = edit[e].version /\ x.rest = rest /\ x.alone = edit[e].alone
      BY <1>1, <1>2, <2>3 DEF EditSet
    <2>5. edit' \in [Editors -> EditSet] /\ edit'[e] = x /\ \A f \in Editors : f # e => edit'[f] = edit[f]
      BY <2>1, <2>2, <2>3 DEF TcInv, TcTyped
    <2>6. TcTyped'
      BY <1>1, <1>4, <1>5, <2>1, <2>5 DEF TcInv, TcTyped
    <2>7. edit[e].alone => SaveIsExact(e)'
      BY <1>1, <1>7, <2>2, <2>4, <2>5 DEF SaveIsExact, NoSave
    <2>8. SavesAreExact'
      <3> SUFFICES ASSUME NEW f \in Editors
                   PROVE  /\ store' = "memory" => NoSave(f)'
                          /\ NoSave(f)' => edit'[f] = NoEdit
                          /\ ~NoSave(f)' => row' # 0 /\ edit'[f].version \in 1..MaxVersion
                          /\ ~NoSave(f)' /\ edit'[f].alone => SaveIsExact(f)'
                          /\ ~NoSave(f)' /\ ~torn' => edit'[f].alone
        BY DEF SavesAreExact
      <3>1. CASE f = e
        BY <1>1, <1>2, <2>1, <2>4, <2>5, <2>7, <3>1 DEF TcInv, SavesAreExact, NoSave
      <3>2. CASE f # e
        BY <1>1, <1>2, <1>8, <2>1, <2>5, <3>2 DEF TcInv, SavesAreExact, NoSave
      <3> QED
        BY <3>1, <3>2
    <2>9. RestsWhole'
      BY <2>4, <2>5 DEF RestsWhole, NoSave
    <2> QED
      BY <1>4, <1>6, <2>6, <2>8, <2>9 DEF TcInv
  <1> QED
    BY <1>9, <1>10

\* A save that fails leaves the tariff torn, until one completes alone.
LEMMA TcFails ==
    ASSUME TcInv, NEW e \in Editors, SaveFails(e)
    PROVE  TcInv'
  <1>1. /\ edit[e] # NoEdit /\ edit' = [edit EXCEPT ![e] = NoEdit] /\ torn' = TRUE /\ read' = Disturbed
        /\ store' = store /\ row' = row /\ comps' = comps /\ saves' = saves /\ bodies' = bodies
    BY DEF SaveFails
  <1>2. edit' \in [Editors -> EditSet] /\ edit'[e] = NoEdit /\ \A f \in Editors : f # e => edit'[f] = edit[f]
    BY <1>1, NoEditFields DEF TcInv, TcTyped
  <1>3. saves \in Nat
    BY TcConstants DEF TcInv, TcTyped
  <1>4. read' \in [Readers -> ReadSet] /\ ReadsAreWhole'
    BY <1>1, <1>3, DisturbedReads DEF TcInv
  <1>5. TcTyped'
    BY <1>1, <1>2, <1>4 DEF TcInv, TcTyped
  <1>6. RowIsLatest' /\ RestsWhole'
    BY <1>1 DEF TcInv, RowIsLatest, RestsWhole
  <1>7. \A f \in Editors : f # e /\ ~NoSave(f) => ~edit[f].alone
    BY <1>1 DEF TcInv, SavesAreExact, SaveIsExact
  <1>8. SavesAreExact'
    <2> SUFFICES ASSUME NEW f \in Editors
                 PROVE  /\ store' = "memory" => NoSave(f)'
                        /\ NoSave(f)' => edit'[f] = NoEdit
                        /\ ~NoSave(f)' => row' # 0 /\ edit'[f].version \in 1..MaxVersion
                        /\ ~NoSave(f)' /\ edit'[f].alone => SaveIsExact(f)'
                        /\ ~NoSave(f)' /\ ~torn' => edit'[f].alone
      BY DEF SavesAreExact
    <2>1. CASE f = e
      BY <1>2, <2>1, NoEditFields DEF NoSave
    <2>2. CASE f # e
      BY <1>1, <1>2, <1>7, <2>2 DEF TcInv, SavesAreExact, NoSave
    <2> QED
      BY <2>1, <2>2
  <1> QED
    BY <1>4, <1>5, <1>6, <1>8 DEF TcInv

\* A read changes nothing but itself.
LEMMA TcReadChanges ==
    ASSUME TcInv, NEW k \in Readers, NEW r \in ReadSet, ReadIsWhole(r), read' = [read EXCEPT ![k] = r],
           UNCHANGED <<store, row, comps, saves, bodies, edit, torn>>
    PROVE  TcInv'
  <1>1. /\ store' = store /\ row' = row /\ comps' = comps /\ saves' = saves /\ bodies' = bodies /\ edit' = edit
        /\ torn' = torn
    OBVIOUS
  <1>2. read' \in [Readers -> ReadSet] /\ \A m \in Readers : read'[m] = IF m = k THEN r ELSE read[m]
    BY DEF TcInv, TcTyped
  <1>3. TcTyped'
    BY <1>1, <1>2 DEF TcInv, TcTyped
  <1>4. RowIsLatest' /\ RestsWhole'
    BY <1>1 DEF TcInv, RowIsLatest, RestsWhole, NoSave
  <1>5. SavesAreExact'
    <2>1. \A e \in Editors : (SaveIsExact(e) => SaveIsExact(e)') /\ (NoSave(e)' <=> NoSave(e))
      BY <1>1 DEF SaveIsExact, NoSave
    <2> QED
      BY <1>1, <2>1 DEF TcInv, SavesAreExact
  <1>6. ReadsAreWhole'
    <2> SUFFICES ASSUME NEW m \in Readers PROVE ReadIsWhole(read[m])'
      BY DEF ReadsAreWhole
    <2>1. CASE m = k
      BY <1>1, <1>2, <2>1 DEF ReadIsWhole
    <2>2. CASE m # k
      BY <1>1, <1>2, <2>2 DEF TcInv, ReadsAreWhole, ReadIsWhole
    <2> QED
      BY <2>1, <2>2
  <1> QED
    BY <1>3, <1>4, <1>5, <1>6 DEF TcInv

LEMMA TcReads ==
    ASSUME TcInv, NEW k \in Readers, SelectRow(k) \/ Hydrate(k) \/ ReadReturns(k)
    PROVE  TcInv'
  <1>1. UNCHANGED <<store, row, comps, saves, bodies, edit, torn>>
    BY DEF SelectRow, Hydrate, ReadReturns
  <1>2. SUFFICES \E r \in ReadSet : ReadIsWhole(r) /\ read' = [read EXCEPT ![k] = r]
    BY <1>1, TcReadChanges
  <1>3. read[k] \in ReadSet /\ ReadIsWhole(read[k]) /\ comps \subseteq ComponentSet /\ row \in 0..MaxVersion
    BY DEF TcInv, TcTyped, ReadsAreWhole
  <1>4. CASE SelectRow(k)
    <2>1. PICK u \in BOOLEAN : u = (~torn /\ Editing = {})
      <3>1. (~torn /\ Editing = {}) \in BOOLEAN
        OBVIOUS
      <3> QED
        BY <3>1, Zenon
    <2>2. u => comps = Components(row, bodies[row]) /\ row \in 1..saves
      <3>1. u => ~torn /\ \A e \in Editors : NoSave(e)
        BY <2>1, NoEditFields DEF Editing, NoSave
      <3>2. row # 0 /\ row = saves /\ row \in Nat
        BY <1>3, <1>4, TcConstants DEF SelectRow, TcInv, RowIsLatest
      <3>3. row \in 1..saves
        BY <3>2
      <3> QED
        BY <3>1, <3>2, <3>3 DEF TcInv, RestsWhole
    <2>3. row # 0
      BY <1>4 DEF SelectRow
    <2>4. CASE store = "memory"
      <3>1. PICK r \in ReadSet : r = [pc |-> "done", version |-> row, comps |-> comps, undisturbed |-> u]
        BY <1>3 DEF ReadSet
      <3>2. r.pc = "done" /\ r.version = row /\ r.comps = comps /\ r.undisturbed = u
        BY <3>1
      <3>3. ReadIsWhole(r)
        BY <2>2, <3>2 DEF ReadIsWhole
      <3>4. read' = [read EXCEPT ![k] = r]
        BY <1>4, <2>1, <2>4, <3>1 DEF SelectRow
      <3> QED
        BY <3>3, <3>4
    <2>5. CASE store # "memory"
      <3>1. PICK r \in ReadSet : r = [pc |-> "row", version |-> row, comps |-> {}, undisturbed |-> u]
        BY <1>3 DEF ReadSet
      <3>2. r.pc = "row" /\ r.version = row /\ r.undisturbed = u
        BY <3>1
      <3>3. ReadIsWhole(r)
        BY <2>2, <2>3, <3>2 DEF ReadIsWhole
      <3>4. read' = [read EXCEPT ![k] = r]
        BY <1>4, <2>1, <2>5, <3>1 DEF SelectRow
      <3> QED
        BY <3>3, <3>4
    <2> QED
      BY <2>4, <2>5
  <1>5. CASE Hydrate(k)
    <2>1. PICK r \in ReadSet : r = [read[k] EXCEPT !.pc = "done", !.comps = comps]
      BY <1>3 DEF ReadSet
    <2>2. r.pc = "done" /\ r.version = read[k].version /\ r.comps = comps /\ r.undisturbed = read[k].undisturbed
      BY <1>3, <2>1 DEF ReadSet
    <2>3. row = saves /\ row \in Nat
      BY <1>3, TcConstants DEF TcInv, RowIsLatest
    <2>4. row # 0 => row \in 1..saves
      BY <2>3
    <2>5. ReadIsWhole(r)
      BY <1>3, <1>5, <2>2, <2>4 DEF ReadIsWhole, Hydrate
    <2>6. read' = [read EXCEPT ![k] = r]
      BY <1>5, <2>1 DEF Hydrate
    <2> QED
      BY <2>5, <2>6
  <1>6. CASE ReadReturns(k)
    <2>1. ReadIsWhole(NoRead)
      BY NoReadFields DEF ReadIsWhole
    <2> QED
      BY <1>6, <2>1, NoReadFields DEF ReadReturns
  <1> QED
    BY <1>4, <1>5, <1>6

LEMMA TcInvNext == TcInv /\ [TcNext]_tcVars => TcInv'
  <1> SUFFICES ASSUME TcInv, [TcNext]_tcVars PROVE TcInv'
    OBVIOUS
  <1>1. CASE UNCHANGED tcVars
    <2>1. /\ store' = store /\ row' = row /\ comps' = comps /\ saves' = saves /\ bodies' = bodies /\ edit' = edit
          /\ torn' = torn /\ read' = read
      BY <1>1 DEF tcVars
    <2>2. SavesAreExact'
      <3>1. \A e \in Editors : (SaveIsExact(e) => SaveIsExact(e)') /\ (NoSave(e)' <=> NoSave(e))
        BY <2>1 DEF SaveIsExact, NoSave
      <3> QED
        BY <2>1, <3>1 DEF TcInv, SavesAreExact
    <2> QED
      BY <2>1, <2>2 DEF TcInv, TcTyped, RowIsLatest, RestsWhole, NoSave, ReadsAreWhole, ReadIsWhole
  <1>2. ASSUME NEW e \in Editors, NEW types \in SUBSET ComponentTypes, NEW step,
               CreateTariff(e, types, step)
        PROVE  TcInv'
    BY <1>2, TcBegins DEF CreateTariff
  <1>3. ASSUME NEW e \in Editors, NEW types \in SUBSET ComponentTypes, NEW step,
               UpdateTariff(e, types, step)
        PROVE  TcInv'
    BY <1>3, TcBegins DEF UpdateTariff
  <1>4. CASE TcNext
    BY <1>2, <1>3, <1>4, TcDeletes, TcInserts, TcFails, TcReads DEF TcNext
  <1> QED
    BY <1>1, <1>4

\* A whole tariff shows partners a component that prices, at its version's price.
LEMMA PartnersCanPrice ==
    ASSUME NEW k \in Readers, NEW v, NEW types \in SUBSET ComponentTypes, Prices(types),
           read[k].comps = Components(v, types), NEW shown \in {GetTariffV221(k), GetTariffV230(k)}
    PROVE  \E x \in shown : x.type \in {"ENERGY", "TIME"} /\ x.price = v
  <1>1. PICK t \in types : t \in {"energy", "time"}
    BY DEF Prices
  <1>2. PICK c \in read[k].comps : c.version = v /\ c.type = t
    <2>1. [version |-> v, type |-> t] \in read[k].comps
      BY DEF Components
    <2> QED
      BY <2>1
  <1>3. PICK elements : elements = OcpiElements(k)
    OBVIOUS
  <1>4. PICK o \in elements : o.type \in {"ENERGY", "TIME"} /\ o.price = v
    <2>1. [type |-> OcpiType[c.type], price |-> c.version] \in elements
      BY <1>3 DEF OcpiElements
    <2>2. OcpiType[c.type] \in {"ENERGY", "TIME"}
      BY <1>1, <1>2 DEF OcpiType
    <2> QED
      BY <1>2, <2>1, <2>2
  <1>5. [type |-> o.type, price |-> o.price] \in shown
    BY <1>3 DEF GetTariffV221, TariffToV221, GetTariffV230, TariffToV230
  <1> QED
    BY <1>4, <1>5

(* TariffIsWhole, for any number of saves and of editors and readers at once:   *)
(* what an uninterrupted read returns of a tariff that is not torn is exactly   *)
(* the body saved last (supabase_billing.py:33-43), with a component that       *)
(* prices a session, by energy or by time (validate_tariff_components).         *)
THEOREM UndisturbedReadsAreWhole == TcSpec => []TariffIsWhole
  <1>1. TcInv => TariffIsWhole
    <2> SUFFICES ASSUME TcInv, NEW k \in Readers, read[k].pc = "done", read[k].undisturbed
                 PROVE  /\ read[k].comps = Components(read[k].version, bodies[read[k].version])
                        /\ \A shown \in {GetTariffV221(k), GetTariffV230(k)} :
                              \E x \in shown : x.type \in {"ENERGY", "TIME"} /\ x.price = read[k].version
      BY DEF TariffIsWhole
    <2>1. read[k].version \in 1..saves /\ read[k].comps = Components(read[k].version, bodies[read[k].version])
      BY DEF TcInv, ReadsAreWhole, ReadIsWhole
    <2>2. PICK types \in SUBSET ComponentTypes : types = bodies[read[k].version] /\ Prices(types)
      BY <2>1, TcConstants DEF TcInv, TcTyped, RowIsLatest
    <2> QED
      BY <2>1, <2>2, PartnersCanPrice
  <1> QED
    BY <1>1, TcInvInit, TcInvNext, PTL DEF TcSpec

(***************************************************************************)
(* Invoicing                                                               *)
(***************************************************************************)

InvoiceSet == [status: {"none", "draft", "issued", "overdue"}, at: -1..MaxInvoiceClock,
               total: Int, issuedTotal: Int, notes: -MaxNotes..0]
RecordSet == [timestamp: -1..MaxInvoiceClock, amount: Amounts \cup {0}]

\* An invoice sums only sessions of its period, and was generated by now.
CoveredInPeriod == \A p \in Periods : \A s \in covered[p] : InPeriod(s, p)
GeneratedBefore == \A p \in Periods : invoice[p].at <= iclock

\* The second and the third part of InvoicedOnce.
EndedIsCovered ==
    \A p \in Periods, s \in InvoicedSessions :
        finished[s].timestamp \in p..(EndOf(p) - 1) /\ finished[s].timestamp < invoice[p].at => s \in covered[p]
CreditIsBooked(i) == i.status \in {"issued", "overdue"} => i.total = i.issuedTotal + i.notes
CreditsAreBooked == \A p \in Periods : CreditIsBooked(invoice[p])

InInv == InTypeOK /\ CoveredInPeriod /\ GeneratedBefore /\ EndedIsCovered /\ CreditsAreBooked

LEMMA InTyping == InTypeOK <=> /\ iclock \in 0..MaxInvoiceClock
                               /\ finished \in [InvoicedSessions -> RecordSet]
                               /\ invoice \in [Periods -> InvoiceSet]
                               /\ covered \in [Periods -> SUBSET InvoicedSessions]
  BY DEF InTypeOK, RecordSet, InvoiceSet

LEMMA InConstants ==
    /\ MaxInvoiceClock \in Nat /\ MaxNotes \in Nat /\ PeriodEnds \subseteq Nat /\ Amounts \subseteq Nat
    /\ IsFiniteSet(InvoicedSessions)
  BY InvoicingAssumption

\* A period is before its end, and ends before or at every later period's start.
LEMMA PeriodEnd ==
    ASSUME NEW p \in Periods
    PROVE  p \in Nat /\ EndOf(p) \in Nat /\ p < EndOf(p) /\ \A r \in PeriodEnds : r > p => EndOf(p) <= r
  <1>1. PICK T : T = {e \in PeriodEnds : e > p}
    OBVIOUS
  <1>2. T \subseteq Nat /\ T # {} /\ p \in Nat
    BY <1>1, InConstants DEF Periods
  <1>3. Min(T) \in T /\ \A y \in T : Min(T) <= y
    BY <1>2, MinIsLeast
  <1> QED
    BY <1>1, <1>2, <1>3 DEF EndOf

LEMMA NoInvoiceFields ==
    /\ NoInvoice \in InvoiceSet /\ NoInvoice.status = "none" /\ NoInvoice.at = -1 /\ NoInvoice.notes = 0
    /\ NoInvoice.issuedTotal = 0
  <1>1. -1 \in -1..MaxInvoiceClock /\ 0 \in -MaxNotes..0
    BY InConstants
  <1> QED
    BY <1>1 DEF NoInvoice, InvoiceSet

LEMMA InInvInit == InInit => InInv
  <1> SUFFICES ASSUME InInit PROVE InInv
    OBVIOUS
  <1>1. -1 \in -1..MaxInvoiceClock /\ 0 \in 0..MaxInvoiceClock
    BY InConstants
  <1>2. InTypeOK
    BY <1>1, NoInvoiceFields, InTyping DEF InInit, RecordSet
  <1>3. CoveredInPeriod /\ GeneratedBefore
    BY NoInvoiceFields DEF InInit, CoveredInPeriod, GeneratedBefore
  <1>4. EndedIsCovered
    BY NoInvoiceFields DEF InInit, EndedIsCovered
  <1>5. CreditsAreBooked
    BY NoInvoiceFields DEF InInit, CreditsAreBooked, CreditIsBooked
  <1> QED
    BY <1>2, <1>3, <1>4, <1>5 DEF InInv

\* A session that ends now ends no earlier than any invoice was generated, and it
\* was in none, having had no timestamp.
LEMMA InSessionEnds ==
    ASSUME InInv, NEW s \in InvoicedSessions, NEW amount \in Amounts, SessionEnds(s, amount)
    PROVE  InInv'
  <1>1. /\ iclock' = iclock /\ invoice' = invoice /\ covered' = covered /\ finished[s].timestamp = -1
        /\ finished' = [finished EXCEPT ![s] = [timestamp |-> iclock, amount |-> amount]]
    BY DEF SessionEnds
  <1>2. iclock \in 0..MaxInvoiceClock /\ iclock \in Nat /\ iclock \in -1..MaxInvoiceClock
    BY InConstants DEF InInv, InTypeOK
  <1>3. [timestamp |-> iclock, amount |-> amount] \in RecordSet
    BY <1>2 DEF RecordSet
  <1>4. finished' \in [InvoicedSessions -> RecordSet]
    BY <1>1, <1>3, InTyping DEF InInv
  <1>5. InTypeOK'
    BY <1>1, <1>4 DEF InInv, InTypeOK, RecordSet
  <1>6. finished'[s].timestamp = iclock /\ \A x \in InvoicedSessions : x # s => finished'[x] = finished[x]
    BY <1>1, InTyping DEF InInv
  <1>7. CoveredInPeriod'
    <2> SUFFICES ASSUME NEW p \in Periods, NEW x \in covered[p] PROVE InPeriod(x, p)'
      BY <1>1 DEF CoveredInPeriod
    <2>1. InPeriod(x, p) /\ x \in InvoicedSessions
      BY DEF InInv, CoveredInPeriod, InTypeOK
    <2>2. x # s
      BY <1>1, <2>1, PeriodEnd DEF InPeriod
    <2> QED
      BY <1>6, <2>1, <2>2 DEF InPeriod
  <1>8. GeneratedBefore' /\ CreditsAreBooked'
    BY <1>1 DEF InInv, GeneratedBefore, CreditsAreBooked, CreditIsBooked
  <1>9. EndedIsCovered'
    <2> SUFFICES ASSUME NEW p \in Periods, NEW x \in InvoicedSessions,
                        finished'[x].timestamp \in p..(EndOf(p) - 1), finished'[x].timestamp < invoice[p].at
                 PROVE  x \in covered[p]
      BY <1>1 DEF EndedIsCovered
    <2>1. invoice[p].at <= iclock /\ invoice[p].at \in Int
      BY InTyping DEF InInv, GeneratedBefore, InvoiceSet
    <2>2. x # s
      BY <1>2, <1>6, <2>1
    <2>3. finished'[x] = finished[x]
      BY <1>6, <2>2
    <2> QED
      BY <2>3 DEF InInv, EndedIsCovered
  <1> QED
    BY <1>5, <1>7, <1>8, <1>9 DEF InInv

LEMMA InGenerates ==
    ASSUME InInv, NEW p \in Periods, GenerateForPeriod(p)
    PROVE  InInv'
  <1>1. PICK relevant : relevant = {s \in InvoicedSessions : InPeriod(s, p)}
    OBVIOUS
  <1>2. PICK total : total = SumOver(AmountOf, relevant)
    OBVIOUS
  <1>3. total \in Int
    <2>1. IsFiniteSet(relevant)
      BY <1>1, InConstants, FS_Subset
    <2>2. PICK g : g = AmountOf
      OBVIOUS
    <2>3. \A s \in relevant : g[s] \in Int
      <3> SUFFICES ASSUME NEW s \in InvoicedSessions PROVE g[s] \in Int
        BY <1>1
      <3>1. g[s] = finished[s].amount /\ finished[s] \in RecordSet
        BY <2>2, InTyping DEF AmountOf, InInv
      <3>2. PICK a \in Amounts \cup {0} : a = finished[s].amount
        BY <3>1 DEF RecordSet
      <3>3. \A b \in Amounts : b \in Int
        BY InvoicingAssumption
      <3> QED
        BY <3>1, <3>2, <3>3
    <2>4. SumOver(g, relevant) \in Int
      BY <2>1, <2>3, SumIsInt
    <2> QED
      BY <1>2, <2>2, <2>4
  <1>4. PICK i : i = [NoInvoice EXCEPT !.status = "draft", !.at = iclock, !.total = total]
    OBVIOUS
  <1>5. iclock \in Nat /\ iclock \in -1..MaxInvoiceClock
    BY InConstants DEF InInv, InTypeOK
  <1>6. i \in InvoiceSet
    BY <1>3, <1>4, <1>5, NoInvoiceFields DEF InvoiceSet
  <1>7. i.status = "draft" /\ i.at = iclock
    BY <1>4, NoInvoiceFields DEF InvoiceSet
  <1>8. /\ invoice' = [invoice EXCEPT ![p] = i] /\ covered' = [covered EXCEPT ![p] = relevant]
        /\ iclock' = iclock /\ finished' = finished
    BY <1>1, <1>2, <1>4 DEF GenerateForPeriod, SumOver
  <1>9. InTypeOK'
    <2>1. invoice' \in [Periods -> InvoiceSet] /\ covered' \in [Periods -> SUBSET InvoicedSessions]
      BY <1>1, <1>6, <1>8, InTyping DEF InInv
    <2> QED
      BY <1>8, <2>1 DEF InInv, InTypeOK, InvoiceSet
  <1>10. \A r \in Periods : /\ invoice'[r] = IF r = p THEN i ELSE invoice[r]
                            /\ covered'[r] = IF r = p THEN relevant ELSE covered[r]
    BY <1>8, InTyping DEF InInv
  <1>11. CoveredInPeriod'
    BY <1>1, <1>8, <1>10 DEF InInv, CoveredInPeriod, InPeriod
  <1>12. GeneratedBefore'
    BY <1>5, <1>7, <1>8, <1>10 DEF InInv, GeneratedBefore
  <1>13. EndedIsCovered'
    <2> SUFFICES ASSUME NEW r \in Periods, NEW s \in InvoicedSessions,
                        finished[s].timestamp \in r..(EndOf(r) - 1), finished[s].timestamp < invoice'[r].at
                 PROVE  s \in covered'[r]
      BY <1>8 DEF EndedIsCovered
    <2>1. CASE r = p
      <3>1. InPeriod(s, p)
        BY <2>1, PeriodEnd DEF InPeriod
      <3> QED
        BY <1>1, <1>10, <2>1, <3>1
    <2>2. CASE r # p
      BY <1>10, <2>2 DEF InInv, EndedIsCovered
    <2> QED
      BY <2>1, <2>2
  <1>14. CreditsAreBooked'
    BY <1>7, <1>10 DEF InInv, CreditsAreBooked, CreditIsBooked
  <1> QED
    BY <1>9, <1>11, <1>12, <1>13, <1>14 DEF InInv

\* An invoice is written without its time being changed.
LEMMA InvoiceChanges ==
    ASSUME InInv, NEW p \in Periods, NEW i \in InvoiceSet, i.at = invoice[p].at, CreditIsBooked(i),
           invoice' = [invoice EXCEPT ![p] = i], UNCHANGED <<iclock, finished, covered>>
    PROVE  InInv'
  <1>1. iclock' = iclock /\ finished' = finished /\ covered' = covered
    OBVIOUS
  <1>2. InTypeOK'
    <2>1. invoice' \in [Periods -> InvoiceSet]
      BY InTyping DEF InInv
    <2> QED
      BY <1>1, <2>1 DEF InInv, InTypeOK, InvoiceSet
  <1>3. \A r \in Periods : invoice'[r] = IF r = p THEN i ELSE invoice[r]
    BY InTyping DEF InInv
  <1>4. \A r \in Periods : invoice'[r].at = invoice[r].at
    BY <1>3
  <1>5. CoveredInPeriod' /\ GeneratedBefore' /\ EndedIsCovered'
    BY <1>1, <1>4 DEF InInv, CoveredInPeriod, GeneratedBefore, EndedIsCovered, InPeriod
  <1>6. CreditsAreBooked'
    BY <1>3 DEF InInv, CreditsAreBooked, CreditIsBooked
  <1> QED
    BY <1>2, <1>5, <1>6 DEF InInv

LEMMA InIssues ==
    ASSUME InInv, NEW p \in Periods, IssueInvoice(p)
    PROVE  InInv'
  <1>1. invoice[p] \in InvoiceSet /\ CreditIsBooked(invoice[p]) /\ invoice[p].status # "none"
    BY InTyping DEF InInv, CreditsAreBooked, IssueInvoice
  <1>2. invoice[p].total \in Int /\ invoice[p].notes \in -MaxNotes..0 /\ invoice[p].issuedTotal \in Int
    BY <1>1 DEF InvoiceSet
  <1>3. CASE invoice[p].status = "draft"
    <2>1. PICK i : i = [invoice[p] EXCEPT !.status = "issued", !.issuedTotal = invoice[p].total, !.notes = 0]
      OBVIOUS
    <2>2. 0 \in -MaxNotes..0
      BY InConstants
    <2>3. i \in InvoiceSet
      BY <1>1, <1>2, <2>1, <2>2 DEF InvoiceSet
    <2>4. i.at = invoice[p].at /\ i.total = invoice[p].total /\ i.issuedTotal = invoice[p].total /\ i.notes = 0
      BY <1>1, <2>1 DEF InvoiceSet
    <2>5. CreditIsBooked(i)
      BY <1>2, <2>4 DEF CreditIsBooked
    <2>6. invoice' = [invoice EXCEPT ![p] = i] /\ UNCHANGED <<iclock, finished, covered>>
      BY <1>3, <2>1 DEF IssueInvoice
    <2> QED
      BY <2>3, <2>4, <2>5, <2>6, InvoiceChanges
  <1>4. CASE invoice[p].status # "draft"
    <2>1. PICK i : i = [invoice[p] EXCEPT !.status = "issued"]
      OBVIOUS
    <2>3. i \in InvoiceSet
      BY <1>1, <2>1 DEF InvoiceSet
    <2>4. /\ i.at = invoice[p].at /\ i.total = invoice[p].total /\ i.issuedTotal = invoice[p].issuedTotal
          /\ i.notes = invoice[p].notes
      BY <1>1, <2>1 DEF InvoiceSet
    <2>5. CreditIsBooked(i)
      BY <1>1, <1>4, <2>4 DEF CreditIsBooked, InvoiceSet
    <2>6. UNCHANGED <<iclock, finished, covered>>
          /\ invoice' = [invoice EXCEPT ![p] = [invoice[p] EXCEPT !.status = "issued",
                                                 !.issuedTotal = invoice[p].issuedTotal, !.notes = invoice[p].notes]]
      BY <1>4 DEF IssueInvoice
    <2>7. [invoice[p] EXCEPT !.status = "issued", !.issuedTotal = invoice[p].issuedTotal, !.notes = invoice[p].notes] = i
      BY <1>1, <2>1 DEF InvoiceSet
    <2> QED
      BY <2>3, <2>4, <2>5, <2>6, <2>7, InvoiceChanges
  <1> QED
    BY <1>3, <1>4

LEMMA InEdits ==
    ASSUME InInv, NEW p \in Periods, NEW total \in Amounts, EditDraft(p, total)
    PROVE  InInv'
  <1>1. invoice[p] \in InvoiceSet /\ invoice[p].status = "draft" /\ total \in Int
    BY InTyping, InConstants DEF InInv, EditDraft, Editable
  <1>2. PICK i : i = [invoice[p] EXCEPT !.total = total]
    OBVIOUS
  <1>3. i \in InvoiceSet /\ i.at = invoice[p].at /\ i.status = "draft"
    BY <1>1, <1>2 DEF InvoiceSet
  <1>4. CreditIsBooked(i)
    BY <1>3 DEF CreditIsBooked
  <1>5. invoice' = [invoice EXCEPT ![p] = i] /\ UNCHANGED <<iclock, finished, covered>>
    BY <1>2 DEF EditDraft
  <1> QED
    BY <1>3, <1>4, <1>5, InvoiceChanges

LEMMA InCredits ==
    ASSUME InInv, NEW p \in Periods, ApplyCreditNote(p)
    PROVE  InInv'
  <1>1. invoice[p] \in InvoiceSet /\ CreditIsBooked(invoice[p]) /\ invoice[p].notes > -MaxNotes
    BY InTyping DEF InInv, CreditsAreBooked, ApplyCreditNote
  <1>2. invoice[p].total \in Int /\ invoice[p].notes \in -MaxNotes..0 /\ invoice[p].issuedTotal \in Int
    BY <1>1 DEF InvoiceSet
  <1>3. PICK t \in Int : t = invoice[p].total - 1
    BY <1>2
  <1>4. PICK n \in -MaxNotes..0 : n = invoice[p].notes - 1
    BY <1>1, <1>2, InConstants
  <1>5. PICK i : i = [invoice[p] EXCEPT !.total = t, !.notes = n]
    OBVIOUS
  <1>6. i \in InvoiceSet
    BY <1>1, <1>3, <1>4, <1>5 DEF InvoiceSet
  <1>7. /\ i.at = invoice[p].at /\ i.status = invoice[p].status /\ i.total = t /\ i.notes = n
        /\ i.issuedTotal = invoice[p].issuedTotal
    BY <1>1, <1>5 DEF InvoiceSet
  <1>8. CreditIsBooked(i)
    BY <1>1, <1>2, <1>3, <1>4, <1>7 DEF CreditIsBooked
  <1>9. invoice' = [invoice EXCEPT ![p] = i] /\ UNCHANGED <<iclock, finished, covered>>
    BY <1>3, <1>4, <1>5 DEF ApplyCreditNote
  <1> QED
    BY <1>6, <1>7, <1>8, <1>9, InvoiceChanges

LEMMA InOverdue ==
    ASSUME InInv, NEW p \in Periods, MarkOverdueIfPastDue(p)
    PROVE  InInv'
  <1>1. invoice[p] \in InvoiceSet /\ CreditIsBooked(invoice[p]) /\ invoice[p].status = "issued"
    BY InTyping DEF InInv, CreditsAreBooked, MarkOverdueIfPastDue
  <1>2. PICK i : i = [invoice[p] EXCEPT !.status = "overdue"]
    OBVIOUS
  <1>3. i \in InvoiceSet
    BY <1>1, <1>2 DEF InvoiceSet
  <1>4. /\ i.at = invoice[p].at /\ i.total = invoice[p].total /\ i.issuedTotal = invoice[p].issuedTotal
        /\ i.notes = invoice[p].notes
    BY <1>1, <1>2 DEF InvoiceSet
  <1>5. CreditIsBooked(i)
    BY <1>1, <1>4 DEF CreditIsBooked
  <1>6. invoice' = [invoice EXCEPT ![p] = i] /\ UNCHANGED <<iclock, finished, covered>>
    BY <1>2 DEF MarkOverdueIfPastDue
  <1> QED
    BY <1>3, <1>4, <1>5, <1>6, InvoiceChanges

LEMMA InTicks ==
    ASSUME InInv, InvoiceTick
    PROVE  InInv'
  <1>1. iclock' = iclock + 1 /\ finished' = finished /\ invoice' = invoice /\ covered' = covered /\ iclock \in Nat
    BY InConstants DEF InvoiceTick, InInv, InTypeOK
  <1>2. iclock' \in 0..MaxInvoiceClock
    BY <1>1, InConstants DEF InvoiceTick
  <1>3. \A p \in Periods : invoice[p].at \in Int
    BY InTyping DEF InInv, InvoiceSet
  <1>4. GeneratedBefore'
    BY <1>1, <1>3 DEF InInv, GeneratedBefore
  <1> QED
    BY <1>1, <1>2, <1>4 DEF InInv, InTypeOK, CoveredInPeriod, InPeriod, EndedIsCovered, CreditsAreBooked, CreditIsBooked

LEMMA InInvNext == InInv /\ [InNext]_inVars => InInv'
  <1> SUFFICES ASSUME InInv, [InNext]_inVars PROVE InInv'
    OBVIOUS
  <1>1. CASE UNCHANGED inVars
    BY <1>1 DEF InInv, InTypeOK, CoveredInPeriod, InPeriod, GeneratedBefore, EndedIsCovered, CreditsAreBooked,
                CreditIsBooked, inVars
  <1>2. CASE InNext
    BY <1>2, InTicks, InSessionEnds, InGenerates, InIssues, InOverdue, InCredits, InEdits DEF InNext
  <1> QED
    BY <1>1, <1>2

(* InvoicedOnce, for any set of period ends, any finite set of sessions and any *)
(* number of credit notes: half-open periods share no session                   *)
(* (invoicing.py:111-162), none that ended before the generation is left out,   *)
(* and the total of an issued invoice stays accounted for.                      *)
THEOREM EverySessionInvoicedOnce == InSpec => []InvoicedOnce
  <1>1. InInv => InvoicedOnce
    <2> SUFFICES ASSUME InInv PROVE InvoicedOnce
      OBVIOUS
    <2>1. ASSUME NEW p \in Periods, NEW r \in Periods, p < r PROVE covered[p] \cap covered[r] = {}
      <3> SUFFICES ASSUME NEW s \in covered[p], s \in covered[r] PROVE FALSE
        OBVIOUS
      <3>1. finished[s].timestamp < EndOf(p) /\ r <= finished[s].timestamp
        BY DEF InInv, CoveredInPeriod, InPeriod
      <3>2. EndOf(p) <= r /\ EndOf(p) \in Nat /\ r \in Nat
        BY <2>1, PeriodEnd DEF Periods
      <3>3. finished[s].timestamp \in Int
        BY InTyping DEF InInv, RecordSet
      <3> QED
        BY <3>1, <3>2, <3>3
    <2>2. \A p, r \in Periods : p # r => covered[p] \cap covered[r] = {}
      BY <2>1, PeriodEnd
    <2> QED
      BY <2>2 DEF InInv, EndedIsCovered, CreditsAreBooked, CreditIsBooked, InvoicedOnce
  <1> QED
    BY <1>1, InInvInit, InInvNext, PTL DEF InSpec

(***************************************************************************)
(* FleetTeams                                                              *)
(***************************************************************************)

\* A request past the checks is some driver's.
JoinsAreDrivers ==
    /\ join \in [Joiners -> [pc: {"idle", "waiting", "holding"}, driver: TeamDrivers \cup {"none"}]]
    /\ \A j \in Joiners : join[j].pc # "idle" => join[j].driver \in TeamDrivers

\* Each use counted is one membership.
UsesAreSeats == SumOver(members, TeamDrivers) = usedCount /\ usedCount <= MaxUses

FtInv == FtTypeOK /\ JoinsAreDrivers /\ UsesAreSeats

LEMMA FtConstants == MaxUses \in Nat /\ JoinLimit \in Nat /\ MaxAttempts \in Nat /\ IsFiniteSet(TeamDrivers)
  BY FleetTeamsAssumption

LEMMA FtInvInit == FtInit => FtInv
  <1> SUFFICES ASSUME FtInit PROVE FtInv
    OBVIOUS
  <1>1. 0 \in 0..MaxAttempts
    BY FtConstants
  <1>2. FtTypeOK /\ JoinsAreDrivers
    BY <1>1 DEF FtInit, FtTypeOK, JoinsAreDrivers, NoJoin
  <1>3. SumOver(members, TeamDrivers) = 0
    BY FtConstants, SumOfZeros DEF FtInit
  <1> QED
    BY <1>2, <1>3, FtConstants DEF FtInv, UsesAreSeats, FtInit

LEMMA FtRedeem ==
    ASSUME FtInv, NEW j \in Joiners, NEW d \in TeamDrivers, Redeem(j, d)
    PROVE  FtInv'
  <1>1. expired' = expired /\ usedCount' = usedCount /\ seatLock' = seatLock /\ members' = members
    BY DEF Redeem
  <1>2. attempts[d] \in 0..MaxAttempts /\ attempts[d] < MaxAttempts /\ attempts' = [attempts EXCEPT ![d] = attempts[d] + 1]
    BY DEF Redeem, FtInv, FtTypeOK
  <1>3. attempts[d] + 1 \in 0..MaxAttempts
    BY <1>2, FtConstants
  <1>4. attempts' \in [TeamDrivers -> 0..MaxAttempts]
    BY <1>2, <1>3 DEF FtInv, FtTypeOK
  <1>5. join' = join \/ join' = [join EXCEPT ![j] = [pc |-> "waiting", driver |-> d]]
    BY DEF Redeem
  <1>6. JoinsAreDrivers'
    BY <1>5 DEF FtInv, JoinsAreDrivers
  <1> QED
    BY <1>1, <1>4, <1>6 DEF FtInv, FtTypeOK, JoinsAreDrivers, UsesAreSeats

LEMMA FtEnter ==
    ASSUME FtInv, NEW j \in Joiners, EnterLock(j)
    PROVE  FtInv'
  <1>1. /\ expired' = expired /\ usedCount' = usedCount /\ attempts' = attempts /\ members' = members /\ seatLock' = j
        /\ join' = [join EXCEPT ![j] = [join[j] EXCEPT !.pc = "holding"]] /\ join[j].pc = "waiting"
    BY DEF EnterLock
  <1>2. join[j] \in [pc: {"idle", "waiting", "holding"}, driver: TeamDrivers \cup {"none"}] /\ join[j].driver \in TeamDrivers
    BY <1>1 DEF FtInv, JoinsAreDrivers
  <1>3. /\ [join[j] EXCEPT !.pc = "holding"] \in [pc: {"idle", "waiting", "holding"}, driver: TeamDrivers \cup {"none"}]
        /\ [join[j] EXCEPT !.pc = "holding"].driver = join[j].driver
    BY <1>2
  <1>4. JoinsAreDrivers'
    BY <1>1, <1>2, <1>3 DEF FtInv, JoinsAreDrivers
  <1> QED
    BY <1>1, <1>4 DEF FtInv, FtTypeOK, JoinsAreDrivers, UsesAreSeats

\* The count and the membership are written in one go, and by the same test.
LEMMA FtTakeSeat ==
    ASSUME FtInv, NEW j \in Joiners, TakeSeat(j)
    PROVE  FtInv'
  <1>1. /\ expired' = expired /\ attempts' = attempts /\ seatLock' = "free" /\ join' = [join EXCEPT ![j] = NoJoin]
        /\ join[j].pc = "holding"
    BY DEF TakeSeat
  <1>2. PICK d \in TeamDrivers : d = join[j].driver
    BY <1>1 DEF FtInv, JoinsAreDrivers
  <1>3. JoinsAreDrivers'
    BY <1>1 DEF FtInv, JoinsAreDrivers, NoJoin
  <1>4. members \in [TeamDrivers -> Nat] /\ usedCount \in Nat /\ SumOver(members, TeamDrivers) = usedCount
    BY DEF FtInv, FtTypeOK, UsesAreSeats
  <1>5. CASE usedCount < MaxUses
    <2>1. usedCount' = usedCount + 1 /\ members' = [members EXCEPT ![d] = members[d] + 1]
      BY <1>2, <1>5 DEF TakeSeat, SeatLeft, WonSlot
    <2>2. members \in [TeamDrivers -> Int] /\ members[d] \in Nat /\ members[d] + 1 \in Int
      BY <1>4
    <2>3. /\ \A x \in TeamDrivers : members[x] \in Int /\ (x # d => members'[x] = members[x])
          /\ members'[d] = members[d] + 1 /\ members'[d] \in Int
      BY <1>4, <2>1
    <2>4. SumOver(members', TeamDrivers) = usedCount'
      <3>1. SumOver(members', TeamDrivers) = SumOver(members, TeamDrivers) - members[d] + members'[d]
        BY <2>3, FtConstants, SumExcept
      <3> QED
        BY <1>4, <2>1, <2>2, <2>3, <3>1
    <2>5. usedCount' <= MaxUses /\ usedCount' \in Nat /\ members' \in [TeamDrivers -> Nat]
      BY <1>4, <1>5, <2>1, FtConstants
    <2> QED
      BY <1>1, <1>3, <2>4, <2>5 DEF FtInv, FtTypeOK, JoinsAreDrivers, UsesAreSeats
  <1>6. CASE ~(usedCount < MaxUses)
    <2>1. usedCount' = usedCount /\ members' = members
      BY <1>6 DEF TakeSeat, SeatLeft, WonSlot
    <2> QED
      BY <1>1, <1>3, <2>1 DEF FtInv, FtTypeOK, JoinsAreDrivers, UsesAreSeats
  <1> QED
    BY <1>5, <1>6

LEMMA FtElapses ==
    ASSUME FtInv, InviteExpires \/ \E d \in TeamDrivers : JoinWindowEnds(d)
    PROVE  FtInv'
  <1>1. usedCount' = usedCount /\ seatLock' = seatLock /\ members' = members /\ join' = join
    BY DEF InviteExpires, JoinWindowEnds
  <1>2. 0 \in 0..MaxAttempts
    BY FtConstants
  <1>3. attempts' \in [TeamDrivers -> 0..MaxAttempts] /\ expired' \in BOOLEAN
    BY <1>2 DEF InviteExpires, JoinWindowEnds, FtInv, FtTypeOK
  <1> QED
    BY <1>1, <1>3 DEF FtInv, FtTypeOK, JoinsAreDrivers, UsesAreSeats

LEMMA FtInvNext == FtInv /\ [FtNext]_ftVars => FtInv'
  <1> SUFFICES ASSUME FtInv, [FtNext]_ftVars PROVE FtInv'
    OBVIOUS
  <1>1. CASE UNCHANGED ftVars
    BY <1>1 DEF FtInv, FtTypeOK, JoinsAreDrivers, UsesAreSeats, ftVars
  <1>2. CASE FtNext
    BY <1>2, FtRedeem, FtEnter, FtTakeSeat, FtElapses DEF FtNext
  <1> QED
    BY <1>1, <1>2

(* SeatsAddUp, for any finite number of drivers, requests and uses: however the *)
(* redeemers interleave across the yield in try_increment_used_count            *)
(* (team_invites.py), the memberships sum to the uses counted and the drivers   *)
(* who see the team's chargers are at most max_uses.                            *)
THEOREM SeatsNeverOversold == FtSpec => []SeatsAddUp
  <1>1. FtInv => SeatsAddUp
    <2> SUFFICES ASSUME FtInv PROVE SeatsAddUp
      OBVIOUS
    <2>1. MapThenSumSet(LAMBDA d : members[d], TeamDrivers) = usedCount /\ usedCount <= MaxUses
      BY DEF FtInv, UsesAreSeats, SumOver
    <2>2. Cardinality({d \in TeamDrivers : members[d] > 0}) <= SumOver(members, TeamDrivers)
      BY FtConstants, SumBoundsSupport DEF FtInv, FtTypeOK
    <2>3. {d \in TeamDrivers : SeesTeamCharger(d)} = {d \in TeamDrivers : members[d] > 0}
      BY DEF SeesTeamCharger
    <2>4. IsFiniteSet({d \in TeamDrivers : members[d] > 0})
      BY FtConstants, FS_Subset
    <2>5. Cardinality({d \in TeamDrivers : members[d] > 0}) \in Nat /\ usedCount \in Nat
      BY <2>4, FS_CardinalityType DEF FtInv, FtTypeOK
    <2>6. Cardinality({d \in TeamDrivers : SeesTeamCharger(d)}) <= MaxUses
      BY <2>2, <2>3, <2>5, FtConstants DEF FtInv, UsesAreSeats
    <2> QED
      BY <2>1, <2>6 DEF SeatsAddUp
  <1> QED
    BY <1>1, FtInvInit, FtInvNext, PTL DEF FtSpec

(***************************************************************************)
(* CarbonIntensity                                                         *)
(***************************************************************************)

AskSet == [pc: {"idle", "cache", "fetching", "storing", "answered", "failed"},
           now: Instant, cached: Entries, tries: 0..MaxTries, value: Instant, stale: BOOLEAN]

\* An entry was sampled at its stamp or later: the stamp was read before the fetch.
EntryIsRecent == entry.present => entry.value >= entry.fetchedAt

\* What a request fetches is sampled after its clock was read, and what it
\* answers as fresh was sampled less than the TTL before it.
AskIsRecent(a) ==
    /\ a.pc = "fetching" => a.now <= cclock
    /\ a.pc = "storing" => a.value >= a.now
    /\ a.pc = "answered" /\ ~a.stale => a.value + CarbonTtl > a.now

AsksAreRecent == \A r \in CarbonRequests : AskIsRecent(ask[r])

CiInv == CiTypeOK /\ EntryIsRecent /\ AsksAreRecent

LEMMA CiTyping == CiTypeOK <=> /\ cclock \in Instant /\ entry \in Entries
                               /\ ask \in [CarbonRequests -> AskSet]
  BY DEF CiTypeOK, AskSet

LEMMA InstantIsNat == Instant \subseteq Nat /\ 0 \in Instant /\ CarbonTtl \in Nat \ {0} /\ MaxTries \in Nat \ {0}
  BY CarbonIntensityAssumption DEF Instant

LEMMA NoEntryFields == NoEntry \in Entries /\ NoEntry.present = FALSE
  BY InstantIsNat DEF NoEntry, Entries

LEMMA NoAskFields == NoAsk \in AskSet /\ NoAsk.pc = "idle"
  <1>1. 0 \in 0..MaxTries
    BY InstantIsNat
  <1> QED
    BY <1>1, InstantIsNat, NoEntryFields DEF NoAsk, AskSet

\* A step that gives one request another record keeps the invariant.
LEMMA AskChanges ==
    ASSUME CiInv, NEW r \in CarbonRequests, NEW a \in AskSet, AskIsRecent(a),
           ask' = [ask EXCEPT ![r] = a], cclock' = cclock, entry' \in Entries, EntryIsRecent'
    PROVE  CiInv'
  <1>1. CiTypeOK'
    <2>1. ask' \in [CarbonRequests -> AskSet]
      BY CiTyping DEF CiInv
    <2> QED
      BY <2>1 DEF CiInv, CiTypeOK, AskSet
  <1>2. AsksAreRecent'
    <2> SUFFICES ASSUME NEW p \in CarbonRequests PROVE AskIsRecent(ask[p])'
      BY DEF AsksAreRecent
    <2>1. ask'[p] = IF p = r THEN a ELSE ask[p]
      BY DEF CiInv, CiTypeOK
    <2>2. CASE p = r
      BY <2>1, <2>2 DEF AskIsRecent
    <2>3. CASE p # r
      BY <2>1, <2>3 DEF CiInv, AsksAreRecent, AskIsRecent
    <2> QED
      BY <2>2, <2>3
  <1> QED
    BY <1>1, <1>2 DEF CiInv

LEMMA CiInvInit == CiInit => CiInv
  <1> SUFFICES ASSUME CiInit PROVE CiInv
    OBVIOUS
  <1>1. CiTypeOK
    BY NoEntryFields, NoAskFields, InstantIsNat, CiTyping DEF CiInit
  <1>2. EntryIsRecent
    BY NoEntryFields DEF CiInit, EntryIsRecent
  <1>3. AsksAreRecent
    BY NoAskFields DEF CiInit, AsksAreRecent, AskIsRecent
  <1> QED
    BY <1>1, <1>2, <1>3 DEF CiInv

LEMMA CiGet ==
    ASSUME CiInv, NEW r \in CarbonRequests, GetIntensity(r)
    PROVE  CiInv'
  <1>1. PICK a : a = [ask[r] EXCEPT !.pc = "cache"]
    OBVIOUS
  <1>2. ask[r] \in AskSet
    BY CiTyping DEF CiInv
  <1>3. a \in AskSet /\ a.pc = "cache"
    BY <1>1, <1>2 DEF AskSet
  <1>4. AskIsRecent(a)
    BY <1>3 DEF AskIsRecent
  <1>5. ask' = [ask EXCEPT ![r] = a] /\ cclock' = cclock /\ entry' = entry
    BY <1>1 DEF GetIntensity
  <1> QED
    BY <1>3, <1>4, <1>5, AskChanges DEF CiInv, CiTypeOK, EntryIsRecent

\* A fresh entry was sampled less than the TTL before the clock.
LEMMA CiCache ==
    ASSUME CiInv, NEW r \in CarbonRequests, CacheAnswers(r)
    PROVE  CiInv'
  <1>1. ask[r] \in AskSet /\ cclock \in Nat /\ cclock \in Instant /\ entry \in Entries
    BY CiTyping, InstantIsNat DEF CiInv
  <1>2. entry.value \in Nat /\ entry.value \in Instant /\ entry.fetchedAt \in Nat
    BY <1>1, InstantIsNat DEF Entries
  <1>3. cclock' = cclock /\ entry' = entry
    BY DEF CacheAnswers
  <1>4. CASE Fresh(entry)
    <2>1. PICK a : a = [ask[r] EXCEPT !.pc = "answered", !.now = cclock, !.value = entry.value]
      OBVIOUS
    <2>2. a \in AskSet
      BY <2>1, <1>1, <1>2 DEF AskSet
    <2>3. a.pc = "answered" /\ a.now = cclock /\ a.value = entry.value
      BY <2>1, <1>1 DEF AskSet
    <2>4. entry.value + CarbonTtl > cclock
      BY <1>1, <1>2, <1>4, InstantIsNat DEF Fresh, CiInv, EntryIsRecent
    <2>5. AskIsRecent(a)
      BY <2>3, <2>4 DEF AskIsRecent
    <2>6. ask' = [ask EXCEPT ![r] = a]
      BY <1>4, <2>1 DEF CacheAnswers
    <2> QED
      BY <2>2, <2>5, <2>6, <1>3, AskChanges DEF CiInv, CiTypeOK, EntryIsRecent
  <1>5. CASE ~Fresh(entry)
    <2>1. PICK a : a = [ask[r] EXCEPT !.pc = "fetching", !.now = cclock, !.cached = entry]
      OBVIOUS
    <2>2. a \in AskSet
      BY <2>1, <1>1 DEF AskSet
    <2>3. a.pc = "fetching" /\ a.now = cclock
      BY <2>1, <1>1 DEF AskSet
    <2>5. AskIsRecent(a)
      BY <2>3, <1>1 DEF AskIsRecent
    <2>6. ask' = [ask EXCEPT ![r] = a]
      BY <1>5, <2>1 DEF CacheAnswers
    <2> QED
      BY <2>2, <2>5, <2>6, <1>3, AskChanges DEF CiInv, CiTypeOK, EntryIsRecent
  <1> QED
    BY <1>4, <1>5

LEMMA CiFetched ==
    ASSUME CiInv, NEW r \in CarbonRequests, FetchSucceeds(r)
    PROVE  CiInv'
  <1>1. ask[r] \in AskSet /\ cclock \in Nat /\ cclock \in Instant /\ AskIsRecent(ask[r])
    BY CiTyping, InstantIsNat DEF CiInv, AsksAreRecent
  <1>2. PICK a : a = [ask[r] EXCEPT !.pc = "storing", !.value = cclock]
    OBVIOUS
  <1>3. a \in AskSet
    BY <1>1, <1>2 DEF AskSet
  <1>4. a.pc = "storing" /\ a.value = cclock /\ a.now = ask[r].now
    BY <1>1, <1>2 DEF AskSet
  <1>5. ask[r].now <= cclock /\ ask[r].now \in Nat
    BY <1>1, InstantIsNat DEF AskIsRecent, FetchSucceeds, AskSet
  <1>6. AskIsRecent(a)
    BY <1>1, <1>4, <1>5 DEF AskIsRecent
  <1>7. ask' = [ask EXCEPT ![r] = a] /\ cclock' = cclock /\ entry' = entry
    BY <1>2 DEF FetchSucceeds
  <1> QED
    BY <1>3, <1>6, <1>7, AskChanges DEF CiInv, CiTypeOK, EntryIsRecent

LEMMA CiFails ==
    ASSUME CiInv, NEW r \in CarbonRequests, FetchFails(r)
    PROVE  CiInv'
  <1>1. ask[r] \in AskSet /\ AskIsRecent(ask[r]) /\ ask[r].pc = "fetching"
    BY CiTyping DEF CiInv, AsksAreRecent, FetchFails
  <1>2. cclock' = cclock /\ entry' = entry
    BY DEF FetchFails
  <1>3. SUFFICES \E a \in AskSet : AskIsRecent(a) /\ ask' = [ask EXCEPT ![r] = a]
    BY <1>2, AskChanges DEF CiInv, CiTypeOK, EntryIsRecent
  <1>4. CASE ask[r].tries + 1 < MaxTries
    <2>1. PICK n : n = ask[r].tries + 1
      OBVIOUS
    <2>2. n \in 0..MaxTries
      BY <2>1, <1>1, <1>4, InstantIsNat DEF AskSet
    <2>3. PICK a : a = [ask[r] EXCEPT !.tries = n]
      OBVIOUS
    <2>4. a \in AskSet
      BY <2>2, <2>3, <1>1 DEF AskSet
    <2>5. a.pc = "fetching" /\ a.now = ask[r].now
      BY <2>3, <1>1 DEF AskSet
    <2>6. AskIsRecent(a)
      BY <2>5, <1>1 DEF AskIsRecent
    <2>7. ask' = [ask EXCEPT ![r] = a]
      BY <2>1, <2>3, <1>4 DEF FetchFails
    <2> QED
      BY <2>4, <2>6, <2>7
  <1>5. CASE ~(ask[r].tries + 1 < MaxTries) /\ ask[r].cached.present
    <2>1. PICK a : a = [ask[r] EXCEPT !.pc = "answered", !.value = ask[r].cached.value, !.stale = TRUE]
      OBVIOUS
    <2>2. ask[r].cached.value \in Instant
      BY <1>1 DEF AskSet, Entries
    <2>3. a \in AskSet
      BY <2>1, <2>2, <1>1 DEF AskSet
    <2>4. a.pc = "answered" /\ a.stale = TRUE
      BY <2>1, <1>1 DEF AskSet
    <2>5. AskIsRecent(a)
      BY <2>4 DEF AskIsRecent
    <2>6. ask' = [ask EXCEPT ![r] = a]
      BY <2>1, <1>5 DEF FetchFails
    <2> QED
      BY <2>3, <2>5, <2>6
  <1>6. CASE ~(ask[r].tries + 1 < MaxTries) /\ ~ask[r].cached.present
    <2>1. PICK a : a = [ask[r] EXCEPT !.pc = "failed"]
      OBVIOUS
    <2>3. a \in AskSet /\ a.pc = "failed"
      BY <2>1, <1>1 DEF AskSet
    <2>5. AskIsRecent(a)
      BY <2>3 DEF AskIsRecent
    <2>6. ask' = [ask EXCEPT ![r] = a]
      BY <2>1, <1>6 DEF FetchFails
    <2> QED
      BY <2>3, <2>5, <2>6
  <1> QED
    BY <1>4, <1>5, <1>6

\* The stored entry has the request's own clock as its stamp.
LEMMA CiStore ==
    ASSUME CiInv, NEW r \in CarbonRequests, StoreValue(r)
    PROVE  CiInv'
  <1>1. ask[r] \in AskSet /\ AskIsRecent(ask[r]) /\ ask[r].pc = "storing"
    BY CiTyping DEF CiInv, AsksAreRecent, StoreValue
  <1>2. /\ ask[r].now \in Nat /\ ask[r].value \in Nat /\ ask[r].now \in Instant /\ ask[r].value \in Instant
        /\ ask[r].value >= ask[r].now
    BY <1>1, InstantIsNat DEF AskSet, AskIsRecent
  <1>3. PICK a : a = [ask[r] EXCEPT !.pc = "answered"]
    OBVIOUS
  <1>4. a \in AskSet
    BY <1>1, <1>3 DEF AskSet
  <1>5. a.pc = "answered" /\ a.value = ask[r].value /\ a.now = ask[r].now
    BY <1>1, <1>3 DEF AskSet
  <1>6. AskIsRecent(a)
    BY <1>2, <1>5, InstantIsNat DEF AskIsRecent
  <1>7. ask' = [ask EXCEPT ![r] = a] /\ cclock' = cclock
    BY <1>3 DEF StoreValue
  <1>8. entry' = [value |-> ask[r].value, fetchedAt |-> ask[r].now, present |-> TRUE]
    BY DEF StoreValue, StampOf
  <1>9. entry' \in Entries /\ EntryIsRecent'
    BY <1>2, <1>8 DEF Entries, EntryIsRecent
  <1> QED
    BY <1>4, <1>6, <1>7, <1>9, AskChanges

LEMMA CiEnds ==
    ASSUME CiInv, NEW r \in CarbonRequests, RequestEnds(r)
    PROVE  CiInv'
  <1>1. AskIsRecent(NoAsk)
    BY NoAskFields DEF AskIsRecent
  <1>2. ask' = [ask EXCEPT ![r] = NoAsk] /\ cclock' = cclock /\ entry' = entry
    BY DEF RequestEnds
  <1> QED
    BY <1>1, <1>2, NoAskFields, AskChanges DEF CiInv, CiTypeOK, EntryIsRecent

LEMMA CiEnvironment ==
    ASSUME CiInv, CarbonTick \/ Backstop
    PROVE  CiInv'
  <1>1. CASE CarbonTick
    <2>1. cclock' = cclock + 1 /\ cclock' \in Instant /\ entry' = entry /\ ask' = ask /\ cclock \in Nat
      BY <1>1, CarbonIntensityAssumption DEF CarbonTick, CiInv, CiTypeOK, Instant
    <2>2. \A r \in CarbonRequests : ask[r].now \in Nat
      BY CiTyping, InstantIsNat DEF CiInv, AskSet
    <2>3. AsksAreRecent'
      <3> SUFFICES ASSUME NEW r \in CarbonRequests PROVE AskIsRecent(ask[r])'
        BY DEF AsksAreRecent
      <3>1. AskIsRecent(ask[r]) /\ ask'[r] = ask[r]
        BY <2>1 DEF CiInv, AsksAreRecent
      <3> QED
        BY <2>1, <2>2, <3>1 DEF AskIsRecent
    <2> QED
      BY <2>1, <2>3 DEF CiInv, CiTypeOK, EntryIsRecent
  <1>2. CASE Backstop
    <2>1. cclock' = cclock /\ entry' = NoEntry /\ ask' = ask
      BY <1>2 DEF Backstop
    <2> QED
      BY <2>1, NoEntryFields DEF CiInv, CiTypeOK, EntryIsRecent, AsksAreRecent, AskIsRecent
  <1> QED
    BY <1>1, <1>2

LEMMA CiInvNext == CiInv /\ [CiNext]_ciVars => CiInv'
  <1> SUFFICES ASSUME CiInv, [CiNext]_ciVars PROVE CiInv'
    OBVIOUS
  <1>1. CASE UNCHANGED ciVars
    BY <1>1 DEF CiInv, CiTypeOK, EntryIsRecent, AsksAreRecent, AskIsRecent, ciVars
  <1>2. CASE CiNext
    BY <1>2, CiGet, CiCache, CiFetched, CiFails, CiStore, CiEnds, CiEnvironment DEF CiNext
  <1> QED
    BY <1>1, <1>2

(* FreshIsRecent, for any number of overlapping requests, any TTL and any       *)
(* number of attempts: because fetched_at is the clock read before the fetch    *)
(* (carbon/service.py), an entry written late by a slow request never makes an  *)
(* older sample count as fresh.                                                 *)
THEOREM FreshAnswersAreRecent == CiSpec => []FreshIsRecent
  <1>1. CiInv => FreshIsRecent
    BY DEF CiInv, AsksAreRecent, AskIsRecent, FreshIsRecent
  <1> QED
    BY <1>1, CiInvInit, CiInvNext, PTL DEF CiSpec

(***************************************************************************)
(* DriverAuth                                                              *)
(***************************************************************************)

CallSet == [pc : {"idle", "signup", "login", "sent", "refresh", "session", "refused", "saving", "clearing"},
            token : Tokens \cup {NoToken}, last : BOOLEAN]
WriteSet == [token : Tokens \cup {NoToken}, by : Calls \cup {NoCall}]

Presents(q) == q.pc \in {"refresh", "session"}
Writing(q) == q.pc \in {"saving", "clearing"}

\* TypeOK, and that a call that presents or was given a token has one.
DaTypes ==
    /\ TypeOK
    /\ \A c \in Calls : (Presents(call[c]) => call[c].token \in Tokens) /\ (call[c].pc = "idle" => call[c] = Idle)

\* A token's successor is the next generation.
Succession == \A r \in redeemed : r[2] = <<r[1][1], r[1][2] + 1>>

\* A call waits for the one storage write it has issued, and the storage will in
\* the end hold what is in memory.
LastWritten(w, s) == IF w = <<>> THEN s ELSE w[Len(w)].token
WritesOwned ==
    /\ \A i \in DOMAIN writes : writes[i].by # NoCall => Writing(call[writes[i].by])
    /\ \A i, j \in DOMAIN writes : writes[i].by = writes[j].by /\ writes[i].by # NoCall => i = j
    /\ LastWritten(writes, stored) = refresh

\* The store accepts the token, or has forgotten its family.
Acceptable(t) == current[t[1]] # 0 /\ (t[1] \in known => current[t[1]] = t[2])

\* The one call under way has an acceptable token.  So is the one in memory, but
\* for the time in which that call's answer is about to replace it.
Careful ==
    /\ reused = {} /\ revoked = {}
    /\ \A c, d \in Calls : call[c].pc # "idle" /\ call[d].pc # "idle" => c = d
    /\ \A c \in Calls : Presents(call[c]) => Acceptable(call[c].token)
    /\ refresh # NoToken =>
          \/ Acceptable(refresh) /\ (driver \/ \E c \in Calls : call[c].pc = "refresh")
          \/ \E c \in Calls : call[c].pc = "refused" \/ (call[c].pc = "session" /\ call[c].token[2] > 1)

DaInv == DaTypes /\ Succession /\ WritesOwned /\ (~overlapped => Careful)

LEMMA DaTyping ==
    TypeOK <=>
    /\ account \in BOOLEAN
    /\ current \in [Families -> Nat] /\ redeemed \subseteq Tokens \X Tokens
    /\ known \subseteq Families /\ revoked \subseteq Families /\ reused \subseteq Families
    /\ valid \subseteq Tokens
    /\ access \in Tokens \cup {NoToken} /\ refresh \in Tokens \cup {NoToken} /\ stored \in Tokens \cup {NoToken}
    /\ driver \in BOOLEAN /\ overlapped \in BOOLEAN
    /\ writes \in Seq(WriteSet) /\ call \in [Calls -> CallSet]
  BY DEF TypeOK, CallSet, WriteSet

LEMMA IdleCall == Idle \in CallSet /\ Idle.pc = "idle" /\ NoToken \notin Tokens
  BY DEF Idle, CallSet, NoToken, Tokens

LEMMA WritesTyped ==
    ASSUME TypeOK
    PROVE  /\ writes \in Seq(WriteSet) /\ Len(writes) \in Nat /\ DOMAIN writes = 1..Len(writes)
           /\ \A i \in DOMAIN writes : writes[i].by \in Calls \cup {NoCall} /\ writes[i].token \in Tokens \cup {NoToken}
  <1>1. writes \in Seq(WriteSet)
    BY DaTyping
  <1>2. \A i \in DOMAIN writes : writes[i] \in WriteSet
    BY <1>1
  <1> QED
    BY <1>1, <1>2 DEF WriteSet

LEMMA DaInvInit == Init => DaInv
  <1> SUFFICES ASSUME Init PROVE DaInv
    OBVIOUS
  <1>1. \A c \in Calls : call[c] = Idle
    BY DEF Init
  <1>2. TypeOK
    <2>1. call \in [Calls -> CallSet]
      BY IdleCall DEF Init
    <2>2. writes \in Seq(WriteSet)
      BY DEF Init
    <2> QED
      BY <2>1, <2>2, DaTyping DEF Init
  <1>3. DaTypes
    BY <1>1, <1>2, IdleCall DEF DaTypes, Presents
  <1>4. Succession /\ WritesOwned
    BY DEF Init, Succession, WritesOwned, LastWritten
  <1>5. Careful
    BY <1>1, IdleCall DEF Init, Careful, Presents
  <1> QED
    BY <1>3, <1>4, <1>5 DEF DaInv

\* Call c becomes q.
Moves(c, q) == q \in CallSet /\ call' = [call EXCEPT ![c] = q]

LEMMA OneCallMoves ==
    ASSUME TypeOK, NEW c \in Calls, NEW q, Moves(c, q)
    PROVE  call' \in [Calls -> CallSet] /\ call'[c] = q /\ \A d \in Calls : d # c => call'[d] = call[d]
  BY DaTyping DEF Moves

\* A step that only moves a call which awaits no write.
LEMMA WritesStay ==
    ASSUME DaInv, NEW c \in Calls, NEW q, Moves(c, q), ~Writing(call[c]), UNCHANGED <<writes, stored, refresh>>
    PROVE  WritesOwned'
  <1>1. call'[c] = q /\ \A d \in Calls : d # c => call'[d] = call[d]
    BY OneCallMoves DEF DaInv, DaTypes
  <1>2. \A i \in DOMAIN writes : writes[i].by \in Calls \cup {NoCall}
    BY WritesTyped DEF DaInv, DaTypes
  <1>3. ASSUME NEW i \in DOMAIN writes, writes[i].by # NoCall PROVE Writing(call'[writes[i].by])
    <2>1. Writing(call[writes[i].by])
      BY <1>3 DEF DaInv, WritesOwned
    <2>2. writes[i].by \in Calls /\ writes[i].by # c
      BY <1>2, <1>3, <2>1
    <2> QED
      BY <1>1, <2>1, <2>2
  <1> QED
    BY <1>3 DEF DaInv, WritesOwned

\* A call comes to an end, or its refresh has failed.
LEMMA DaCallFails ==
    ASSUME DaInv, NEW c \in Calls, NEW q, Moves(c, q),
           call[c].pc \in {"sent", "refresh", "session", "signup", "login"},
           q = Idle \/ q.pc = "refused",
           call[c].pc = "refresh" \/ (call[c].pc = "session" /\ call[c].token[2] > 1) => q.pc = "refused",
           UNCHANGED <<account, current, known, valid, redeemed, access, refresh, driver, stored, writes, overlapped>>,
           revoked' \subseteq Families, reused' \subseteq Families,
           ~overlapped => UNCHANGED <<revoked, reused>>
    PROVE  DaInv'
  <1>1. call' \in [Calls -> CallSet] /\ call'[c] = q /\ \A d \in Calls : d # c => call'[d] = call[d]
    BY OneCallMoves DEF DaInv, DaTypes
  <1>2. TypeOK'
    BY <1>1, DaTyping DEF DaInv, DaTypes, TypeOK, CallSet
  <1>3. DaTypes'
    BY <1>1, <1>2, IdleCall DEF DaInv, DaTypes, Presents
  <1>4. Succession' /\ WritesOwned'
    BY WritesStay DEF DaInv, Succession, Writing
  <1>5. ASSUME ~overlapped PROVE Careful'
    <2>1. Careful
      BY <1>5 DEF DaInv
    <2>2. /\ reused' = {} /\ revoked' = {}
          /\ \A x, d \in Calls : call'[x].pc # "idle" /\ call'[d].pc # "idle" => x = d
      BY <1>1, <1>5, <2>1, IdleCall DEF Careful
    <2>3. (\A x \in Calls : Presents(call[x]) => Acceptable(call[x].token))'
      BY <1>1, <2>1, IdleCall DEF Careful, Presents, Acceptable
    <2>4. refresh # NoToken => \/ Acceptable(refresh)' /\ (driver \/ \E x \in Calls : call'[x].pc = "refresh")
                               \/ \E x \in Calls : call'[x].pc = "refused" \/ (call'[x].pc = "session" /\ call'[x].token[2] > 1)
      <3>1. CASE q.pc = "refused"
        BY <1>1, <3>1
      <3>2. CASE q = Idle
        BY <1>1, <2>1, <3>2, IdleCall DEF Careful, Acceptable
      <3> QED
        BY <3>1, <3>2
    <2> QED
      BY <2>2, <2>3, <2>4 DEF Careful
  <1> QED
    BY <1>3, <1>4, <1>5 DEF DaInv

LEMMA DaRefusals ==
    ASSUME DaInv, NEW c \in Calls,
           IssueRefused(c) \/ CallReturns(c) \/ RetryUnauthorized(c) \/ AnswerLost(c) \/ RotateRefused(c)
    PROVE  DaInv'
  <1>0. call \in [Calls -> CallSet] /\ revoked \subseteq Families /\ reused \subseteq Families
    BY DaTyping DEF DaInv, DaTypes
  <1>1. CASE IssueRefused(c) \/ CallReturns(c) \/ RetryUnauthorized(c)
    <2>1. Moves(c, Idle)
      BY <1>1, IdleCall DEF Moves, IssueRefused, CallReturns, RetryUnauthorized
    <2>2. call[c].pc \in {"sent", "signup", "login"}
      BY <1>1 DEF IssueRefused, CallReturns, RetryUnauthorized, Screens
    <2>3. UNCHANGED <<storeVars, memoryVars, stored, writes, overlapped>>
      BY <1>1 DEF IssueRefused, CallReturns, RetryUnauthorized
    <2> QED
      BY <1>0, <2>1, <2>2, <2>3, DaCallFails DEF storeVars, memoryVars
  <1>2. CASE AnswerLost(c)
    <2>1. UNCHANGED <<storeVars, memoryVars, stored, writes, overlapped>>
      BY <1>2 DEF AnswerLost
    <2>2. call[c].pc \in {"sent", "refresh", "session", "signup", "login"}
      BY <1>2 DEF AnswerLost, Screens
    <2>3. CASE call[c].pc = "refresh" \/ (call[c].pc = "session" /\ call[c].token[2] > 1)
      <3>1. PICK q : q = [call[c] EXCEPT !.pc = "refused"]
        OBVIOUS
      <3>2. q \in CallSet /\ q.pc = "refused"
        BY <1>0, <3>1 DEF CallSet
      <3>3. Moves(c, q)
        BY <1>2, <2>3, <3>1, <3>2 DEF Moves, AnswerLost
      <3> QED
        BY <1>0, <2>1, <2>2, <3>2, <3>3, DaCallFails DEF storeVars, memoryVars
    <2>4. CASE ~(call[c].pc = "refresh" \/ (call[c].pc = "session" /\ call[c].token[2] > 1))
      <3>1. Moves(c, Idle)
        BY <1>2, <2>4, IdleCall DEF Moves, AnswerLost
      <3> QED
        BY <1>0, <2>1, <2>2, <2>4, <3>1, DaCallFails DEF storeVars, memoryVars
    <2> QED
      BY <2>3, <2>4
  <1>3. CASE RotateRefused(c)
    <2>1. PICK q : q = [call[c] EXCEPT !.pc = "refused"]
      OBVIOUS
    <2>2. q \in CallSet /\ q.pc = "refused"
      BY <1>0, <2>1 DEF CallSet
    <2>3. Moves(c, q) /\ call[c].pc = "refresh"
      BY <1>3, <2>1, <2>2 DEF Moves, RotateRefused
    <2>4. UNCHANGED <<account, current, known, valid, redeemed, access, refresh, driver, stored, writes, overlapped>>
      BY <1>3 DEF RotateRefused, memoryVars
    <2>5. revoked' \subseteq Families /\ reused' \subseteq Families
      BY <1>0, <1>3, DaTyping DEF RotateRefused, Revoke, DaInv, DaTypes
    <2>6. ASSUME ~overlapped PROVE UNCHANGED <<revoked, reused>>
      <3>1. Careful
        BY <2>6 DEF DaInv
      <3>2. PICK t : t = call[c].token
        OBVIOUS
      <3>3. t[1] \in known => IsCurrent(t) /\ t[1] \notin revoked
        BY <2>3, <3>1, <3>2 DEF Careful, Presents, Acceptable, IsCurrent
      <3>4. t[1] \notin known
        BY <1>3, <3>2, <3>3 DEF RotateRefused
      <3> QED
        BY <1>3, <3>2, <3>4 DEF RotateRefused
    <2> QED
      BY <2>2, <2>3, <2>4, <2>5, <2>6, DaCallFails
  <1> QED
    BY <1>1, <1>2, <1>3

\* Generation g of family f is call c's: the first of a login, or the successor of
\* the token that c presents.
Granted(c, f, g) ==
    /\ current' = [current EXCEPT ![f] = g]
    /\ call' = [call EXCEPT ![c].pc = "session", ![c].token = <<f, g>>]
    /\ call[c].pc \in {"signup", "login", "refresh"}
    /\ valid' = valid \cup {<<f, g>>} /\ g = current[f] + 1 /\ f \in known'
    /\ known' \in {known, known \cup {f}} /\ account' \in {account, TRUE}
    /\ call[c].pc # "refresh" => current[f] = 0 /\ redeemed' = redeemed
    /\ call[c].pc = "refresh" => /\ call[c].token = <<f, current[f]>> /\ g > 1
                                 /\ redeemed' = redeemed \cup {<<call[c].token, <<f, g>>>>}

\* A token is issued: by a login, or as the successor of the one presented.
LEMMA DaGranted ==
    ASSUME DaInv, NEW c \in Calls, (\E f \in Families : Issue(c, f)) \/ Rotate(c)
    PROVE  DaInv'
  <1>0. /\ call \in [Calls -> CallSet] /\ current \in [Families -> Nat] /\ known \subseteq Families
        /\ valid \subseteq Tokens /\ redeemed \subseteq Tokens \X Tokens
    BY DaTyping DEF DaInv, DaTypes
  <1>1. PICK f \in Families, g \in Nat \ {0} : Granted(c, f, g)
    <2>1. ASSUME NEW f \in Families, Issue(c, f) PROVE Granted(c, f, 1)
      BY <2>1 DEF Issue, Screens, Granted
    <2>2. ASSUME Rotate(c) PROVE \E f \in Families, g \in Nat \ {0} : Granted(c, f, g)
      <3>1. PICK t : t = call[c].token
        OBVIOUS
      <3>2. t \in Tokens
        BY <2>2, <3>1 DEF Rotate, DaInv, DaTypes, Presents
      <3>3. t[1] \in Families /\ t[2] \in Nat \ {0} /\ t = <<t[1], t[2]>>
        BY <3>2 DEF Tokens
      <3>4. current[t[1]] = t[2] /\ t[1] \in known
        BY <2>2, <3>1 DEF Rotate, IsCurrent
      <3>5. PICK g : g = current[t[1]] + 1
        OBVIOUS
      <3>6. g \in Nat \ {0} /\ g > 1
        BY <3>3, <3>4, <3>5
      <3>7. t = <<t[1], current[t[1]]>>
        BY <3>3, <3>4
      <3>8. /\ current' = [current EXCEPT ![t[1]] = g]
            /\ call' = [call EXCEPT ![c].pc = "session", ![c].token = <<t[1], g>>]
            /\ call[c].pc = "refresh" /\ known' = known /\ account' = account
            /\ valid' = valid \cup {<<t[1], g>>}
            /\ redeemed' = redeemed \cup {<<t, <<t[1], g>>>>}
        BY <2>2, <3>1, <3>5 DEF Rotate
      <3>9. Granted(c, t[1], g)
        BY <3>1, <3>4, <3>5, <3>6, <3>7, <3>8 DEF Granted
      <3> QED
        BY <3>3, <3>6, <3>9
    <2>3. 1 \in Nat \ {0}
      OBVIOUS
    <2> QED
      BY <2>1, <2>2, <2>3
  <1> USE <1>1 DEF Granted
  <1>2. UNCHANGED <<revoked, reused, access, refresh, driver, stored, writes, overlapped>>
    BY DEF Issue, Rotate, memoryVars
  <1>3. PICK q : q = [call[c] EXCEPT !.pc = "session", !.token = <<f, g>>]
    OBVIOUS
  <1>4. <<f, g>> \in Tokens /\ <<f, g>>[1] = f /\ <<f, g>>[2] = g
    BY DEF Tokens
  <1>5. q \in CallSet /\ q.pc = "session" /\ q.token = <<f, g>>
    BY <1>0, <1>3, <1>4 DEF CallSet
  <1>6. Moves(c, q)
    BY <1>0, <1>1, <1>3, <1>5 DEF Moves
  <1>7. call' \in [Calls -> CallSet] /\ call'[c] = q /\ \A d \in Calls : d # c => call'[d] = call[d]
    BY <1>6, OneCallMoves DEF DaInv, DaTypes
  <1>8. TypeOK'
    <2>1. current' \in [Families -> Nat] /\ known' \subseteq Families
      BY <1>0, <1>1
    <2>2. valid' \subseteq Tokens
      BY <1>0, <1>1, <1>4
    <2>3. redeemed' \subseteq Tokens \X Tokens
      <3>1. CASE call[c].pc = "refresh"
        <4>1. call[c].token \in Tokens
          BY <3>1 DEF DaInv, DaTypes, Presents
        <4> QED
          BY <1>0, <1>1, <1>4, <3>1, <4>1
      <3> QED
        BY <1>0, <1>1, <3>1
    <2>4. account' \in BOOLEAN
      BY <1>1, DaTyping DEF DaInv, DaTypes
    <2> QED
      BY <1>2, <1>7, <2>1, <2>2, <2>3, <2>4, DaTyping DEF DaInv, DaTypes, TypeOK, CallSet
  <1>9. DaTypes'
    BY <1>4, <1>5, <1>7, <1>8 DEF DaInv, DaTypes, Presents
  <1>10. Succession'
    <2>1. ASSUME NEW r \in redeemed', r \notin redeemed PROVE r[2] = <<r[1][1], r[1][2] + 1>>
      <3>1. call[c].pc = "refresh" /\ r = <<call[c].token, <<f, g>>>> /\ call[c].token = <<f, current[f]>>
        BY <1>1, <2>1
      <3> QED
        BY <1>1, <3>1
    <2> QED
      BY <2>1 DEF DaInv, Succession
  <1>11. WritesOwned'
    BY <1>1, <1>2, <1>6, WritesStay DEF Writing
  <1>12. ASSUME ~overlapped PROVE Careful'
    <2>1. Careful
      BY <1>12 DEF DaInv
    <2>2. reused' = {} /\ revoked' = {}
      BY <1>2, <2>1 DEF Careful
    <2>3. \A d \in Calls : d # c => call[d].pc = "idle" /\ call'[d].pc = "idle"
      BY <1>1, <1>7, <2>1 DEF Careful
    <2>4. Acceptable(q.token)'
      BY <1>0, <1>1, <1>4, <1>5 DEF Acceptable
    <2>5. (\A x \in Calls : Presents(call[x]) => Acceptable(call[x].token))'
      BY <1>7, <2>3, <2>4 DEF Presents
    <2>6. ASSUME refresh # NoToken
          PROVE  \/ Acceptable(refresh)' /\ (driver \/ \E x \in Calls : call'[x].pc = "refresh")
                 \/ \E x \in Calls : call'[x].pc = "refused" \/ (call'[x].pc = "session" /\ call'[x].token[2] > 1)
      <3>1. CASE call[c].pc = "refresh"
        BY <1>1, <1>4, <1>5, <1>7, <3>1
      <3>2. CASE call[c].pc # "refresh"
        <4>1. Acceptable(refresh) /\ driver
          BY <1>1, <2>1, <2>3, <2>6, <3>2 DEF Careful
        <4>2. refresh[1] # f /\ refresh[1] \in Families
          BY <1>1, <2>6, <3>2, <4>1, DaTyping DEF Acceptable, DaInv, DaTypes, Tokens
        <4>3. Acceptable(refresh)'
          BY <1>0, <1>1, <1>2, <4>1, <4>2 DEF Acceptable
        <4> QED
          BY <4>1, <4>3
      <3> QED
        BY <3>1, <3>2
    <2> QED
      BY <1>2, <2>2, <2>3, <2>5, <2>6 DEF Careful
  <1> QED
    BY <1>2, <1>9, <1>10, <1>11, <1>12 DEF DaInv

\* A screen fires a call or opens: an overlap is noticed.
LEMMA DaStarts ==
    ASSUME DaInv, NEW c \in Calls, StartCall(c) \/ \E screen \in Screens : StartLogin(c, screen)
    PROVE  DaInv'
  <1>0. call \in [Calls -> CallSet] /\ access \in Tokens \cup {NoToken} /\ overlapped \in BOOLEAN
    BY DaTyping DEF DaInv, DaTypes
  <1>1. PICK q \in CallSet : call' = [call EXCEPT ![c] = q] /\ q.pc \in {"sent", "signup", "login"}
    <2>1. CASE StartCall(c)
      <3>1. PICK q : q = [pc |-> "sent", token |-> access, last |-> FALSE]
        OBVIOUS
      <3>2. q \in CallSet /\ q.pc = "sent"
        BY <1>0, <3>1 DEF CallSet
      <3> QED
        BY <2>1, <3>1, <3>2 DEF StartCall
    <2>2. ASSUME NEW screen \in Screens, StartLogin(c, screen)
          PROVE  \E q \in CallSet : call' = [call EXCEPT ![c] = q] /\ q.pc \in {"sent", "signup", "login"}
      <3>1. PICK q : q = [pc |-> screen, token |-> NoToken, last |-> TRUE]
        OBVIOUS
      <3>2. q \in CallSet /\ q.pc \in {"signup", "login"}
        BY <3>1 DEF CallSet, Screens
      <3> QED
        BY <2>2, <3>1, <3>2 DEF StartLogin
    <2> QED
      BY <2>1, <2>2
  <1>2. /\ call[c].pc = "idle" /\ overlapped' = (overlapped \/ ~Quiet)
        /\ UNCHANGED <<account, current, known, revoked, valid, reused, redeemed, access, refresh, driver, stored, writes>>
    BY IdleCall DEF StartCall, StartLogin, storeVars, memoryVars
  <1>3. Moves(c, q)
    BY <1>1 DEF Moves
  <1>4. call' \in [Calls -> CallSet] /\ call'[c] = q /\ \A d \in Calls : d # c => call'[d] = call[d]
    BY <1>3, OneCallMoves DEF DaInv, DaTypes
  <1>5. TypeOK'
    <2>1. overlapped' \in BOOLEAN
      BY <1>0, <1>2
    <2> QED
      BY <1>2, <1>4, <2>1, DaTyping DEF DaInv, DaTypes, TypeOK, CallSet
  <1>6. DaTypes'
    BY <1>1, <1>4, <1>5 DEF DaInv, DaTypes, Presents
  <1>7. Succession' /\ WritesOwned'
    BY <1>2, <1>3, WritesStay DEF DaInv, Succession, Writing
  <1>8. ASSUME ~overlapped' PROVE Careful'
    <2>1. Careful /\ \A d \in Calls : call[d] = Idle
      BY <1>2, <1>8 DEF DaInv, Quiet
    <2>2. \A d \in Calls : d # c => call'[d].pc = "idle"
      BY <1>4, <2>1, IdleCall
    <2>3. refresh # NoToken => Acceptable(refresh) /\ driver
      BY <2>1, IdleCall DEF Careful
    <2>4. refresh' # NoToken => Acceptable(refresh)' /\ driver'
      BY <1>2, <2>3 DEF Acceptable
    <2> QED
      BY <1>1, <1>2, <1>4, <2>1, <2>2, <2>4 DEF Careful, Presents
  <1> QED
    BY <1>6, <1>7, <1>8 DEF DaInv

\* A 401: the call presents the token in memory.
LEMMA DaPresents ==
    ASSUME DaInv, NEW c \in Calls, Unauthorized(c), refresh # NoToken
    PROVE  DaInv'
  <1>0. call \in [Calls -> CallSet] /\ refresh \in Tokens
    BY DaTyping DEF DaInv, DaTypes
  <1>1. /\ call[c].pc = "sent" /\ call' = [call EXCEPT ![c].pc = "refresh", ![c].token = refresh]
        /\ UNCHANGED <<account, current, known, revoked, valid, reused, redeemed, access, refresh, driver, stored, writes, overlapped>>
    BY DEF Unauthorized, storeVars, memoryVars
  <1>2. PICK q : q = [call[c] EXCEPT !.pc = "refresh", !.token = refresh]
    OBVIOUS
  <1>3. q \in CallSet /\ q.pc = "refresh" /\ q.token = refresh
    BY <1>0, <1>2 DEF CallSet
  <1>4. Moves(c, q)
    BY <1>0, <1>1, <1>2, <1>3 DEF Moves
  <1>5. call' \in [Calls -> CallSet] /\ call'[c] = q /\ \A d \in Calls : d # c => call'[d] = call[d]
    BY <1>4, OneCallMoves DEF DaInv, DaTypes
  <1>6. TypeOK'
    BY <1>1, <1>5, DaTyping DEF DaInv, DaTypes, TypeOK, CallSet
  <1>7. DaTypes'
    BY <1>0, <1>3, <1>5, <1>6 DEF DaInv, DaTypes, Presents
  <1>8. Succession' /\ WritesOwned'
    BY <1>1, <1>4, WritesStay DEF DaInv, Succession, Writing
  <1>9. ASSUME ~overlapped PROVE Careful'
    <2>1. Careful
      BY <1>9 DEF DaInv
    <2>2. \A d \in Calls : d # c => call[d].pc = "idle" /\ call'[d].pc = "idle"
      BY <1>1, <1>5, <2>1 DEF Careful
    <2>3. Acceptable(refresh)'
      BY <1>1, <2>1, <2>2 DEF Careful, Acceptable
    <2> QED
      BY <1>1, <1>3, <1>5, <2>1, <2>2, <2>3 DEF Careful, Presents
  <1> QED
    BY <1>1, <1>7, <1>8, <1>9 DEF DaInv

\* A storage write is issued.
LEMMA OneWrite ==
    ASSUME TypeOK, NEW t \in Tokens \cup {NoToken}, NEW b \in Calls \cup {NoCall}, Write(t, b)
    PROVE  /\ writes' \in Seq(WriteSet) /\ DOMAIN writes' = DOMAIN writes \cup {Len(writes) + 1}
           /\ \A i \in DOMAIN writes : writes'[i] = writes[i]
           /\ writes'[Len(writes) + 1].by = b /\ Len(writes) + 1 \notin DOMAIN writes
           /\ \A s : LastWritten(writes', s) = t
  <1>1. PICK w : w = [token |-> t, by |-> b]
    OBVIOUS
  <1>2. w \in WriteSet /\ w.token = t /\ w.by = b
    BY <1>1 DEF WriteSet
  <1>3. writes \in Seq(WriteSet) /\ Len(writes) \in Nat /\ DOMAIN writes = 1..Len(writes)
    BY WritesTyped
  <1>4. writes' = Append(writes, w)
    BY <1>1 DEF Write
  <1>5. /\ writes' \in Seq(WriteSet) /\ Len(writes') = Len(writes) + 1 /\ DOMAIN writes' = 1..(Len(writes) + 1)
        /\ writes'[Len(writes) + 1] = w /\ \A i \in 1..Len(writes) : writes'[i] = writes[i]
    BY <1>2, <1>3, <1>4
  <1>6. writes' # <<>>
    BY <1>3, <1>5
  <1> QED
    BY <1>2, <1>3, <1>5, <1>6 DEF LastWritten

\* The session in memory is replaced, by a new one or by none, and written.
LEMMA DaReplaces ==
    ASSUME DaInv, NEW c \in Calls,
           (Unauthorized(c) /\ refresh = NoToken) \/ RefreshFails(c) \/ ApplySession(c)
    PROVE  DaInv'
  <1>0. call \in [Calls -> CallSet]
    BY DaTyping DEF DaInv, DaTypes
  <1>1. PICK t \in Tokens \cup {NoToken}, p \in {"saving", "clearing"} :
            /\ call' = [call EXCEPT ![c].pc = p] /\ call[c].pc \in {"sent", "refused", "session"}
            /\ access' = t /\ refresh' = t /\ driver' \in BOOLEAN /\ Write(t, c)
            /\ t # NoToken => driver' /\ call[c].pc = "session" /\ call[c].token = t
    <2>1. CASE (Unauthorized(c) /\ refresh = NoToken) \/ RefreshFails(c)
      <3>1. /\ call' = [call EXCEPT ![c].pc = "clearing"] /\ call[c].pc \in {"sent", "refused"}
            /\ Clear /\ Write(NoToken, c)
        BY <2>1 DEF Unauthorized, RefreshFails
      <3> QED
        BY <3>1 DEF Clear
    <2>2. CASE ApplySession(c)
      <3>1. PICK t : t = call[c].token
        OBVIOUS
      <3>2. /\ call[c].pc = "session" /\ access' = t /\ refresh' = t /\ driver' = TRUE /\ Write(t, c)
            /\ call' = [call EXCEPT ![c].pc = "saving"]
        BY <2>2, <3>1 DEF ApplySession
      <3>3. t \in Tokens
        BY <3>1, <3>2 DEF DaInv, DaTypes, Presents
      <3> QED
        BY <3>1, <3>2, <3>3
    <2> QED
      BY <2>1, <2>2
  <1>2. UNCHANGED <<account, current, known, revoked, valid, reused, redeemed, stored, overlapped>>
    BY DEF Unauthorized, RefreshFails, ApplySession, storeVars
  <1>3. PICK q : q = [call[c] EXCEPT !.pc = p]
    OBVIOUS
  <1>4. q \in CallSet /\ q.pc \in {"saving", "clearing"}
    BY <1>0, <1>1, <1>3 DEF CallSet
  <1>5. Moves(c, q)
    BY <1>0, <1>1, <1>3, <1>4 DEF Moves
  <1>6. call' \in [Calls -> CallSet] /\ call'[c] = q /\ \A d \in Calls : d # c => call'[d] = call[d]
    BY <1>5, OneCallMoves DEF DaInv, DaTypes
  <1>7. /\ writes' \in Seq(WriteSet) /\ DOMAIN writes' = DOMAIN writes \cup {Len(writes) + 1}
        /\ \A i \in DOMAIN writes : writes'[i] = writes[i]
        /\ writes'[Len(writes) + 1].by = c /\ Len(writes) + 1 \notin DOMAIN writes
        /\ \A s : LastWritten(writes', s) = t
    BY <1>1, OneWrite DEF DaInv, DaTypes
  <1>8. TypeOK'
    BY <1>1, <1>2, <1>6, <1>7, DaTyping DEF DaInv, DaTypes, TypeOK, CallSet, WriteSet
  <1>9. DaTypes'
    BY <1>4, <1>6, <1>8 DEF DaInv, DaTypes, Presents
  <1>10. Succession'
    BY <1>2 DEF DaInv, Succession
  <1>11. WritesOwned'
    <2>1. \A i \in DOMAIN writes : writes[i].by \in Calls \cup {NoCall}
      BY WritesTyped DEF DaInv, DaTypes
    <2>2. \A i \in DOMAIN writes : writes[i].by # NoCall => writes[i].by # c /\ Writing(call'[writes[i].by])
      <3> SUFFICES ASSUME NEW i \in DOMAIN writes, writes[i].by # NoCall
                   PROVE  writes[i].by # c /\ Writing(call'[writes[i].by])
        OBVIOUS
      <3>1. Writing(call[writes[i].by])
        BY DEF DaInv, WritesOwned
      <3>2. writes[i].by # c
        BY <1>1, <3>1 DEF Writing
      <3> QED
        BY <1>6, <2>1, <3>1, <3>2
    <2>3. Writing(call'[c])
      BY <1>4, <1>6 DEF Writing
    <2>4. \A i \in DOMAIN writes' : writes'[i].by # NoCall => Writing(call'[writes'[i].by])
      BY <1>7, <2>2, <2>3
    <2>5. \A i, j \in DOMAIN writes' : writes'[i].by = writes'[j].by /\ writes'[i].by # NoCall => i = j
      BY <1>7, <2>2 DEF DaInv, WritesOwned
    <2>6. LastWritten(writes', stored') = refresh'
      BY <1>1, <1>7
    <2> QED
      BY <2>4, <2>5, <2>6 DEF WritesOwned
  <1>12. ASSUME ~overlapped PROVE Careful'
    <2>1. Careful
      BY <1>12 DEF DaInv
    <2>2. \A d \in Calls : d # c => call[d].pc = "idle" /\ call'[d].pc = "idle"
      BY <1>1, <1>6, <2>1 DEF Careful
    <2>3. refresh' # NoToken => Acceptable(refresh)' /\ driver'
      BY <1>1, <1>2, <2>1 DEF Careful, Acceptable, Presents
    <2> QED
      BY <1>2, <1>4, <1>6, <2>1, <2>2, <2>3 DEF Careful, Presents
  <1> QED
    BY <1>2, <1>9, <1>10, <1>11, <1>12 DEF DaInv

\* The driver logs out, whatever is under way.
LEMMA DaLogout ==
    ASSUME DaInv, Logout
    PROVE  DaInv'
  <1>1. /\ access' = NoToken /\ refresh' = NoToken /\ driver' = FALSE /\ Write(NoToken, NoCall)
        /\ UNCHANGED <<account, current, known, revoked, valid, reused, redeemed, stored, call, overlapped>>
    BY DEF Logout, Clear, storeVars
  <1>2. /\ writes' \in Seq(WriteSet) /\ DOMAIN writes' = DOMAIN writes \cup {Len(writes) + 1}
        /\ \A i \in DOMAIN writes : writes'[i] = writes[i]
        /\ writes'[Len(writes) + 1].by = NoCall
        /\ \A s : LastWritten(writes', s) = NoToken
    BY <1>1, OneWrite DEF DaInv, DaTypes
  <1>3. DaTypes'
    BY <1>1, <1>2, DaTyping DEF DaInv, DaTypes, TypeOK, WriteSet, Presents
  <1>4. Succession' /\ WritesOwned'
    BY <1>1, <1>2 DEF DaInv, Succession, WritesOwned
  <1>5. ASSUME ~overlapped PROVE Careful'
    BY <1>1, <1>5 DEF DaInv, Careful, Presents, Acceptable
  <1> QED
    BY <1>1, <1>3, <1>4, <1>5 DEF DaInv

\* The oldest write is done, and the call that waits for it goes on.
LEMMA DaStorageWrite ==
    ASSUME DaInv, StorageWrite
    PROVE  DaInv'
  <1>0. call \in [Calls -> CallSet] /\ access \in Tokens \cup {NoToken}
    BY DaTyping DEF DaInv, DaTypes
  <1>1. /\ writes # <<>> /\ stored' = Head(writes).token /\ writes' = Tail(writes)
        /\ UNCHANGED <<account, current, known, revoked, valid, reused, redeemed, access, refresh, driver, overlapped>>
    BY DEF StorageWrite, storeVars, memoryVars
  <1>2. /\ writes \in Seq(WriteSet) /\ Len(writes) \in Nat /\ DOMAIN writes = 1..Len(writes)
        /\ \A i \in DOMAIN writes : writes[i].by \in Calls \cup {NoCall} /\ writes[i].token \in Tokens \cup {NoToken}
    BY WritesTyped DEF DaInv, DaTypes
  <1>3. PICK b : b = writes[1].by
    OBVIOUS
  <1>4. /\ Len(writes) > 0 /\ Head(writes) = writes[1] /\ 1 \in DOMAIN writes
        /\ writes' \in Seq(WriteSet) /\ Len(writes') = Len(writes) - 1 /\ DOMAIN writes' = 1..(Len(writes) - 1)
        /\ \A i \in DOMAIN writes' : writes'[i] = writes[i + 1] /\ i + 1 \in DOMAIN writes
    BY <1>1, <1>2
  <1>5. call' = call \/ \E q \in CallSet : /\ b \in Calls /\ Writing(call[b]) /\ Moves(b, q)
                                           /\ (q = Idle \/ q.pc = "sent")
    <2>1. CASE b = NoCall
      BY <1>1, <1>3, <1>4, <2>1 DEF StorageWrite
    <2>2. CASE b # NoCall
      <3>1. b \in Calls /\ Writing(call[b])
        BY <1>2, <1>3, <1>4, <2>2 DEF DaInv, WritesOwned
      <3>2. PICK q : q = [pc |-> "sent", token |-> access, last |-> TRUE]
        OBVIOUS
      <3>3. q \in CallSet /\ q.pc = "sent"
        BY <1>0, <3>2 DEF CallSet
      <3>4. call' = [call EXCEPT ![b] = q] \/ call' = [call EXCEPT ![b] = Idle]
        BY <1>3, <1>4, <2>2, <3>2 DEF StorageWrite
      <3> QED
        BY <3>1, <3>3, <3>4, IdleCall DEF Moves
    <2> QED
      BY <2>1, <2>2
  <1>6. /\ call' \in [Calls -> CallSet]
        /\ \A d \in Calls : call'[d] = call[d] \/ (Writing(call[d]) /\ d = b /\ (call'[d] = Idle \/ call'[d].pc = "sent"))
    <2>1. CASE call' = call
      BY <1>0, <2>1
    <2>2. ASSUME NEW q \in CallSet, b \in Calls, Writing(call[b]), Moves(b, q), q = Idle \/ q.pc = "sent"
          PROVE  /\ call' \in [Calls -> CallSet]
                 /\ \A d \in Calls : call'[d] = call[d] \/ (Writing(call[d]) /\ d = b /\ (call'[d] = Idle \/ call'[d].pc = "sent"))
      BY <2>2, OneCallMoves DEF DaInv, DaTypes
    <2> QED
      BY <1>5, <2>1, <2>2
  <1>7. TypeOK'
    BY <1>1, <1>2, <1>4, <1>6, DaTyping DEF DaInv, DaTypes, TypeOK, CallSet, WriteSet
  <1>8. DaTypes'
    BY <1>6, <1>7, IdleCall DEF DaInv, DaTypes, Presents
  <1>9. Succession'
    BY <1>1 DEF DaInv, Succession
  <1>10. WritesOwned'
    <2>1. ASSUME NEW i \in DOMAIN writes', writes'[i].by # NoCall PROVE Writing(call'[writes'[i].by])
      <3>1. writes'[i].by = writes[i + 1].by /\ i + 1 \in DOMAIN writes /\ i + 1 # 1
        BY <1>2, <1>4, <2>1
      <3>2. writes[i + 1].by \in Calls /\ writes[i + 1].by # b /\ Writing(call[writes[i + 1].by])
        BY <1>2, <1>3, <1>4, <2>1, <3>1 DEF DaInv, WritesOwned
      <3> QED
        BY <1>6, <3>1, <3>2
    <2>2. ASSUME NEW i \in DOMAIN writes', NEW j \in DOMAIN writes',
                 writes'[i].by = writes'[j].by, writes'[i].by # NoCall
          PROVE  i = j
      <3>1. i + 1 = j + 1
        BY <1>4, <2>2 DEF DaInv, WritesOwned
      <3> QED
        BY <1>2, <1>4, <3>1
    <2>3. LastWritten(writes', stored') = refresh'
      <3>1. writes[Len(writes)].token = refresh
        BY <1>1 DEF DaInv, WritesOwned, LastWritten
      <3>2. CASE Len(writes) = 1
        <4>1. writes' = <<>>
          BY <1>4, <3>2
        <4> QED
          BY <1>1, <1>4, <3>1, <3>2, <4>1 DEF LastWritten
      <3>3. CASE Len(writes) # 1
        <4>1. writes' # <<>> /\ Len(writes') \in DOMAIN writes' /\ Len(writes') + 1 = Len(writes)
          BY <1>2, <1>4, <3>3
        <4> QED
          BY <1>1, <1>4, <3>1, <4>1 DEF LastWritten
      <3> QED
        BY <3>2, <3>3
    <2> QED
      BY <2>1, <2>2, <2>3 DEF WritesOwned
  <1>11. ASSUME ~overlapped PROVE Careful'
    <2>1. Careful
      BY <1>11 DEF DaInv
    <2>2. \A x, d \in Calls : call'[x].pc # "idle" /\ call'[d].pc # "idle" => x = d
      BY <1>6, <2>1 DEF Careful, Writing
    <2>3. (\A x \in Calls : Presents(call[x]) => Acceptable(call[x].token))'
      BY <1>1, <1>6, <2>1, IdleCall DEF Careful, Presents, Acceptable
    <2>4. \A x \in Calls : call[x].pc \in {"refresh", "refused", "session"} => call'[x] = call[x]
      BY <1>6 DEF Writing
    <2>5. (refresh # NoToken =>
             \/ Acceptable(refresh) /\ (driver \/ \E x \in Calls : call[x].pc = "refresh")
             \/ \E x \in Calls : call[x].pc = "refused" \/ (call[x].pc = "session" /\ call[x].token[2] > 1))'
      BY <1>1, <2>1, <2>4 DEF Careful, Acceptable
    <2> QED
      BY <1>1, <2>1, <2>2, <2>3, <2>5 DEF Careful
  <1> QED
    BY <1>1, <1>8, <1>9, <1>10, <1>11 DEF DaInv

\* The app is killed and started again; if nothing was under way, storage and
\* memory held the same.
LEMMA DaAppRestarts ==
    ASSUME DaInv, NEW c \in Calls, AppRestarts(c)
    PROVE  DaInv'
  <1>0. /\ stored \in Tokens \cup {NoToken} /\ overlapped \in BOOLEAN
    BY DaTyping DEF DaInv, DaTypes
  <1>1. /\ access' = NoToken /\ driver' = FALSE /\ refresh' = stored /\ writes' = <<>>
        /\ overlapped' = (overlapped \/ ~Quiet)
        /\ UNCHANGED <<account, current, known, revoked, valid, reused, redeemed, stored>>
    BY DEF AppRestarts, storeVars
  <1>2. PICK q : q = [pc |-> "refresh", token |-> stored, last |-> TRUE]
    OBVIOUS
  <1>3. q \in CallSet /\ q.pc = "refresh" /\ q.token = stored
    BY <1>0, <1>2 DEF CallSet
  <1>4. /\ call' \in [Calls -> CallSet]
        /\ \A d \in Calls : call'[d] = IF d = c /\ stored # NoToken THEN q ELSE Idle
    BY <1>2, <1>3, IdleCall DEF AppRestarts
  <1>5. TypeOK'
    <2>1. writes' \in Seq(WriteSet) /\ overlapped' \in BOOLEAN
      BY <1>0, <1>1
    <2> QED
      BY <1>1, <1>4, <2>1, DaTyping DEF DaInv, DaTypes, TypeOK, CallSet, WriteSet
  <1>6. DaTypes'
    BY <1>0, <1>3, <1>4, <1>5, IdleCall DEF DaTypes, Presents
  <1>7. Succession' /\ WritesOwned'
    BY <1>1 DEF DaInv, Succession, WritesOwned, LastWritten
  <1>8. ASSUME ~overlapped' PROVE Careful'
    <2>1. Careful /\ writes = <<>> /\ \A d \in Calls : call[d] = Idle
      BY <1>1, <1>8 DEF DaInv, Quiet
    <2>2. stored = refresh
      BY <2>1 DEF DaInv, WritesOwned, LastWritten
    <2>3. stored # NoToken => Acceptable(stored)
      BY <2>1, <2>2, IdleCall DEF Careful
    <2>4. stored # NoToken => Acceptable(stored)'
      BY <1>1, <2>3 DEF Acceptable
    <2> QED
      BY <1>1, <1>3, <1>4, <2>1, <2>4, IdleCall DEF Careful, Presents
  <1> QED
    BY <1>6, <1>7, <1>8 DEF DaInv

\* An access token expires, or the service forgets its families.
LEMMA DaService ==
    ASSUME DaInv, (\E t \in valid : ExpireAccess(t)) \/ ServiceRestarts
    PROVE  DaInv'
  <1>1. /\ UNCHANGED <<current, redeemed, access, refresh, driver, stored, writes, call, overlapped>>
        /\ account' \in {account, FALSE} /\ known' \in {known, {}} /\ revoked' \in {revoked, {}} /\ reused' \in {reused, {}}
        /\ valid' \subseteq valid
    BY DEF ExpireAccess, ServiceRestarts, memoryVars
  <1>2. DaTypes'
    BY <1>1, DaTyping DEF DaInv, DaTypes, TypeOK, Presents
  <1>3. Succession' /\ WritesOwned'
    BY <1>1 DEF DaInv, Succession, WritesOwned
  <1>4. ASSUME ~overlapped PROVE Careful'
    BY <1>1, <1>4 DEF DaInv, Careful, Presents, Acceptable
  <1> QED
    BY <1>1, <1>2, <1>3, <1>4 DEF DaInv

LEMMA DaInvNext == DaInv /\ [Next]_vars => DaInv'
  <1> SUFFICES ASSUME DaInv, [Next]_vars PROVE DaInv'
    OBVIOUS
  <1>1. ASSUME NEW c \in Calls,
               \/ \E f \in Families : Issue(c, f)
               \/ IssueRefused(c) \/ \E screen \in Screens : StartLogin(c, screen)
               \/ Rotate(c) \/ RotateRefused(c)
               \/ StartCall(c) \/ CallReturns(c) \/ Unauthorized(c) \/ RetryUnauthorized(c)
               \/ AnswerLost(c) \/ ApplySession(c) \/ RefreshFails(c)
               \/ AppRestarts(c)
        PROVE  DaInv'
    BY <1>1, DaGranted, DaRefusals, DaStarts, DaPresents, DaReplaces, DaAppRestarts
  <1>2. CASE StorageWrite \/ Logout \/ ServiceRestarts \/ \E t \in valid : ExpireAccess(t)
    BY <1>2, DaStorageWrite, DaLogout, DaService
  <1>3. CASE UNCHANGED vars
    BY <1>3 DEF vars, DaInv, DaTypes, TypeOK, Succession, WritesOwned, Careful, Acceptable
  <1> QED
    BY <1>1, <1>2, <1>3 DEF Next

LEMMA DaInvImplies == DaInv => CarefulClientNotRevoked
  <1> SUFFICES ASSUME DaInv PROVE CarefulClientNotRevoked
    OBVIOUS
  <1>1. SingleUse
    <2> SUFFICES ASSUME NEW r \in redeemed, NEW q \in redeemed, r[1] = q[1] PROVE r = q
      BY DEF SingleUse
    <2>1. r \in Tokens \X Tokens /\ q \in Tokens \X Tokens
      BY DaTyping DEF DaInv, DaTypes
    <2>2. r = <<r[1], r[2]>> /\ q = <<q[1], q[2]>> /\ r[2] = q[2]
      BY <2>1 DEF DaInv, Succession
    <2> QED
      BY <2>2
  <1>2. ASSUME ~overlapped PROVE HonestClientNotRevoked /\ (Quiet => HoldsCurrentToken)
    <2>1. Careful
      BY <1>2 DEF DaInv
    <2>2. ASSUME Quiet PROVE HoldsCurrentToken
      <3>1. stored = refresh
        BY <2>2 DEF Quiet, DaInv, WritesOwned, LastWritten
      <3>2. refresh # NoToken => Acceptable(refresh)
        BY <2>1, <2>2, IdleCall DEF Quiet, Careful
      <3> QED
        BY <2>1, <3>1, <3>2 DEF HoldsCurrentToken, Acceptable, IsCurrent, Careful
    <2> QED
      BY <2>1, <2>2 DEF HonestClientNotRevoked, Careful
  <1> QED
    BY <1>1, <1>2 DEF CarefulClientNotRevoked

\* However many calls present a refresh token, it has one successor; and an app
\* that does one thing at a time holds, between calls, the token that the store
\* will accept, and is never taken for a thief (auth_session.dart's _refresh over
\* refresh_store.rotate).  For any number of calls and logins, through lost
\* answers, logouts, and restarts of the app and the service.
THEOREM CarefulAppStaysSignedIn == Spec => []CarefulClientNotRevoked
  <1>1. Spec => []DaInv
    BY DaInvInit, DaInvNext, PTL DEF Spec
  <1> QED
    BY <1>1, DaInvImplies, PTL

(***************************************************************************)
(* Pricing                                                                 *)
(***************************************************************************)

LEMMA DivMod ==
    ASSUME NEW n \in Nat, NEW d \in Nat \ {0}
    PROVE  n \div d \in Nat /\ n % d \in 0..(d - 1) /\ n = d * (n \div d) + (n % d)
  OBVIOUS

LEMMA Monotone ==
    ASSUME NEW k \in Nat, NEW x \in Int, NEW y \in Int, x <= y
    PROVE  k * x <= k * y /\ k * x \in Int /\ k * y \in Int
  OBVIOUS

LEMMA PrConstants ==
    /\ StepUnit \in Nat \ {0} /\ MaxPriceClock \in Nat
    /\ 1 \in DOMAIN ComponentsOf /\ \A v \in DOMAIN ComponentsOf : v \in Nat
    /\ UseOf \in [PricedSessions -> [energy: Nat, time: Nat, idle: Nat]]
  BY SMTT(40), PricingAssumption

\* Python's round is off by at most half.
LEMMA RoundClose ==
    ASSUME NEW n \in Nat, NEW d \in Nat \ {0}
    PROVE  /\ RoundHalfEven(n, d) \in Nat
           /\ 2 * (d * RoundHalfEven(n, d)) - 2 * n <= d
           /\ 2 * n - 2 * (d * RoundHalfEven(n, d)) <= d
  <1>1. PICK q \in Nat, r \in 0..(d - 1) : q = n \div d /\ r = n % d /\ n = d * q + r
    BY DivMod
  <1>2. PICK e \in Nat : e = d * q
    BY <1>1
  <1>3. n = e + r
    BY <1>1, <1>2
  <1>4. d * (q + 1) = e + d
    BY <1>1, <1>2
  <1>5. CASE 2 * r < d
    <2>1. RoundHalfEven(n, d) = q
      BY <1>1, <1>5 DEF RoundHalfEven
    <2> QED
      BY <1>1, <1>2, <1>3, <1>5, <2>1
  <1>6. CASE 2 * r > d
    <2>1. RoundHalfEven(n, d) = q + 1
      BY <1>1, <1>6 DEF RoundHalfEven
    <2> QED
      BY <1>1, <1>2, <1>3, <1>4, <1>6, <2>1
  <1>7. CASE 2 * r = d
    <2>1. RoundHalfEven(n, d) = q \/ RoundHalfEven(n, d) = q + 1
      BY <1>1, <1>7 DEF RoundHalfEven
    <2> QED
      BY <1>1, <1>2, <1>3, <1>4, <1>7, <2>1
  <1> QED
    BY <1>1, <1>5, <1>6, <1>7

\* What a component costs, and costs exactly, in tenths of a StepUnit'th.
CostOf(c, use) == ProportionalCost(Quantity(c, use), c.step, c.price)
ExactOf(c, use) == Quantity(c, use) * c.price * (StepUnit \div c.step)

UseSet == [energy : Nat, time : Nat, idle : Nat]

LEMMA QuantityIsNat ==
    ASSUME NEW c \in TariffComponent, NEW use \in UseSet
    PROVE  Quantity(c, use) \in Nat /\ (c.type = "flat" => Quantity(c, use) = 10 * c.step)
  <1>1. c.type \in {"energy", "time", "flat", "idle"} /\ c.step \in Nat /\ c.grace \in Nat
    BY DEF TariffComponent
  <1>2. use.energy \in Nat /\ use.time \in Nat /\ use.idle \in Nat
    BY DEF UseSet
  <1>3. CASE c.type = "idle"
    <2>1. Quantity(c, use) = IF use.idle > 10 * c.grace THEN use.idle - 10 * c.grace ELSE 0
      BY <1>3 DEF Quantity
    <2> QED
      BY <1>1, <1>2, <1>3, <2>1
  <1>4. CASE c.type # "idle"
    BY <1>1, <1>2, <1>4 DEF Quantity
  <1> QED
    BY <1>3, <1>4

\* Each component is rounded by itself, to within half a minor unit.
LEMMA ComponentClose ==
    ASSUME NEW c \in TariffComponent, NEW use \in UseSet, StepUnit % c.step = 0
    PROVE  /\ CostOf(c, use) \in Nat /\ ExactOf(c, use) \in Nat
           /\ 10 * StepUnit * CostOf(c, use) - ExactOf(c, use) <= 5 * StepUnit
           /\ -(5 * StepUnit) <= 10 * StepUnit * CostOf(c, use) - ExactOf(c, use)
           /\ c.type = "flat" => 10 * StepUnit * CostOf(c, use) = ExactOf(c, use)
  <1>1. PICK p \in Nat, t \in Nat \ {0} : p = c.price /\ t = c.step
    BY DEF TariffComponent
  <1>2. PICK Q \in Nat : Q = Quantity(c, use) /\ (c.type = "flat" => Q = 10 * t)
    BY <1>1, QuantityIsNat
  <1>3. PICK U \in Nat \ {0} : U = StepUnit
    BY PrConstants
  <1>4. PICK k \in Nat : k = StepUnit \div t /\ U = t * k
    <2>1. U \div t \in Nat /\ U = t * (U \div t) + (U % t)
      BY DivMod
    <2>2. U % t = 0
      BY <1>1, <1>3
    <2>3. t * (U \div t) \in Nat
      BY <2>1
    <2> QED
      BY <1>3, <2>1, <2>2, <2>3
  <1>5. PICK n \in Nat : n = Q * p
    OBVIOUS
  <1>6. PICK d \in Nat \ {0} : d = 10 * t
    OBVIOUS
  <1>7. PICK R \in Nat : /\ R = RoundHalfEven(n, d)
                         /\ 2 * (d * R) - 2 * n <= d /\ 2 * n - 2 * (d * R) <= d
    BY RoundClose
  <1>8. CostOf(c, use) = R /\ ExactOf(c, use) = n * k
    BY <1>1, <1>2, <1>4, <1>5, <1>6, <1>7 DEF CostOf, ExactOf, ProportionalCost
  <1>9. PICK m \in Nat : m = d * R
    OBVIOUS
  <1>10. 10 * U * R = k * m
    <2>1. 10 * U = k * d
      BY <1>4, <1>6
    <2>2. (k * d) * R = k * (d * R)
      OBVIOUS
    <2> QED
      BY <1>9, <2>1, <2>2
  <1>11. k * (2 * m - 2 * n) <= k * d /\ k * (2 * n - 2 * m) <= k * d
    BY <1>7, <1>9, Monotone
  <1>12. PICK a \in Nat, e \in Nat : a = k * m /\ e = n * k
    OBVIOUS
  <1>13. k * (2 * m - 2 * n) = 2 * a - 2 * e /\ k * (2 * n - 2 * m) = 2 * e - 2 * a
    BY <1>12
  <1>14. k * d = 10 * U
    BY <1>4, <1>6
  <1>15. a - e <= 5 * U /\ -(5 * U) <= a - e
    BY <1>11, <1>13, <1>14
  <1>16. ASSUME c.type = "flat" PROVE a = e
    <2>1. n = d * p
      BY <1>2, <1>5, <1>6, <1>16
    <2>2. R = p
      <3>1. 2 * (d * (R - p)) <= d /\ 2 * (d * (p - R)) <= d
        BY <1>7, <2>1
      <3>2. ASSUME R > p PROVE FALSE
        <4>1. d * 1 <= d * (R - p)
          BY <3>2, Monotone
        <4> QED
          BY <3>1, <4>1
      <3>3. ASSUME R < p PROVE FALSE
        <4>1. d * 1 <= d * (p - R)
          BY <3>3, Monotone
        <4> QED
          BY <3>1, <4>1
      <3> QED
        BY <3>2, <3>3
    <2>3. m = n
      BY <1>9, <2>1, <2>2
    <2> QED
      BY <1>12, <2>3
  <1> QED
    BY <1>3, <1>8, <1>10, <1>12, <1>15, <1>16

\* So the whole bill is within as many halves as there are components to round.
ExactSum(v, use) ==
    LET price == [c \in ComponentsOf[v] |-> ExactOf(c, use)]
    IN  MapThenSumSet(LAMBDA c : price[c], ComponentsOf[v])
Slack(v) == 5 * StepUnit * Cardinality({c \in ComponentsOf[v] : c.type # "flat"})

LEMMA CostClose ==
    ASSUME NEW v \in DOMAIN ComponentsOf, NEW use \in UseSet
    PROVE  /\ SessionCost(v, use) \in Nat /\ ExactSum(v, use) \in Int /\ Slack(v) \in Nat
           /\ 10 * StepUnit * SessionCost(v, use) - ExactSum(v, use) <= Slack(v)
           /\ -Slack(v) <= 10 * StepUnit * SessionCost(v, use) - ExactSum(v, use)
  <1>1. PICK S : S = ComponentsOf[v] /\ IsFiniteSet(S) /\ \A c \in S : c \in TariffComponent /\ StepUnit % c.step = 0
    BY SMTT(40), PricingAssumption
  <1>2. PICK g : g = [c \in S |-> CostOf(c, use)]
    OBVIOUS
  <1>3. PICK e : e = [c \in S |-> ExactOf(c, use)]
    OBVIOUS
  <1>4. SessionCost(v, use) = SumOver(g, S) /\ ExactSum(v, use) = SumOver(e, S)
    BY <1>1, <1>2, <1>3 DEF SessionCost, ExactSum, SumOver, CostOf
  <1>5. PICK k \in Nat, b \in Nat : k = 10 * StepUnit /\ b = 5 * StepUnit
    BY PrConstants
  <1>6. PICK Z : Z = {c \in S : c.type = "flat"}
    OBVIOUS
  <1>7. \A c \in S : /\ g[c] \in Nat /\ e[c] \in Int
                     /\ Near(k, b, g[c], e[c])
                     /\ c \in Z => Near(k, 0, g[c], e[c])
    BY <1>1, <1>2, <1>3, <1>5, <1>6, ComponentClose DEF Near
  <1>8. /\ SumOver(g, S) \in Int /\ SumOver(e, S) \in Int /\ Cardinality(S \ Z) \in Nat
        /\ Near(k, b * Cardinality(S \ Z), SumOver(g, S), SumOver(e, S))
    <2>1. \A c \in S : g[c] \in Int /\ e[c] \in Int
      BY <1>7
    <2>2. \A c \in S : Near(k, b, g[c], e[c])
      BY <1>7
    <2>3. \A c \in S \cap Z : Near(k, 0, g[c], e[c])
      BY <1>7
    <2>4. k \in Int
      OBVIOUS
    <2> QED
      BY <1>1, <2>1, <2>2, <2>3, <2>4, SumsWithin
  <1>9. SumOver(g, S) \in Nat
    BY <1>1, <1>7, SumBoundsSupport
  <1>10. S \ Z = {c \in ComponentsOf[v] : c.type # "flat"}
    BY <1>1, <1>6
  <1>11. Slack(v) = b * Cardinality(S \ Z) /\ b * Cardinality(S \ Z) \in Nat
    <2>1. PICK n \in Nat : n = Cardinality(S \ Z)
      BY <1>8
    <2>2. Slack(v) = b * n
      BY <1>5, <1>10, <2>1 DEF Slack
    <2> QED
      BY <2>1, <2>2
  <1> QED
    BY <1>4, <1>5, <1>8, <1>9, <1>11 DEF Near

LEMMA PromoFields ==
    ASSUME NEW p \in DOMAIN PromoOf
    PROVE  PromoOf[p].value \in Nat /\ PromoOf[p].limit \in Int
  <1>1. PromoOf[p] \in Promotion
    BY PricingAssumption
  <1> QED
    BY <1>1 DEF Promotion

\* A promo code, percent or flat, only lowers the price, and never below zero.
LEMMA DiscountLowers ==
    ASSUME NEW cost \in Nat, NEW p \in DOMAIN PromoOf
    PROVE  Discounted(cost, p) \in Nat /\ Discounted(cost, p) <= cost
  <1>1. PICK n \in Nat : n = cost * PromoOf[p].value
    BY PromoFields
  <1>2. PICK d \in Nat : d = IF PromoOf[p].kind = "percent" THEN RoundHalfEven(n, 10000) ELSE PromoOf[p].value
    BY RoundClose, PromoFields
  <1> QED
    BY <1>1, <1>2 DEF Discounted

VersionSet == [no : DOMAIN ComponentsOf, from : 0..MaxPriceClock, to : Int]
PricedSet == [pc : {"new", "charging", "billed"}, start : Nat, shown : Int, amount : Nat]

InForce(at) == {v \in versions : v.from <= at /\ (v.to = -1 \/ at < v.to)}

NewestNo(F) == (CHOOSE v \in F : \A w \in F : w.from < v.from \/ (w.from = v.from /\ w.no >= v.no)).no

\* The version in force is one of the tariff's.
LEMMA ActiveIsAVersion ==
    ASSUME versions \subseteq VersionSet, NEW at, ActiveVersion(at) # 0
    PROVE  ActiveVersion(at) \in DOMAIN ComponentsOf
  <1>1. InForce(at) # {} /\ InForce(at) \subseteq VersionSet
    BY DEF ActiveVersion, InForce
  <1>2. \A v \in VersionSet : v.no \in DOMAIN ComponentsOf /\ v.no \in Nat /\ v.from \in 0..MaxPriceClock
    BY PrConstants DEF VersionSet
  <1>3. PICK v \in InForce(at) : \A w \in InForce(at) : w.from <= v.from
    <2>1. PICK T : T = {MaxPriceClock - v.from : v \in InForce(at)}
      OBVIOUS
    <2>2. T \subseteq Nat /\ T # {} /\ MaxPriceClock \in Nat
      BY <1>1, <1>2, <2>1, PrConstants
    <2>3. PICK x \in T : \A y \in T : x <= y
      BY <2>2, LeastExists
    <2>4. PICK v \in InForce(at) : x = MaxPriceClock - v.from
      BY <2>1, <2>3
    <2>5. ASSUME NEW w \in InForce(at) PROVE w.from <= v.from
      <3>1. x <= MaxPriceClock - w.from
        BY <2>1, <2>3
      <3>2. w.from \in Nat /\ v.from \in Nat
        BY <1>1, <1>2
      <3> QED
        BY <2>2, <2>4, <3>1, <3>2
    <2> QED
      BY <2>5
  <1>4. PICK u \in InForce(at) : u.from = v.from /\ \A w \in InForce(at) : w.from = v.from => w.no >= u.no
    <2>1. PICK T : T = {w.no : w \in {z \in InForce(at) : z.from = v.from}}
      OBVIOUS
    <2>2. T \subseteq Nat /\ T # {}
      BY <1>1, <1>2, <2>1
    <2>3. PICK x \in T : \A y \in T : x <= y
      BY <2>2, LeastExists
    <2>4. PICK u \in InForce(at) : u.from = v.from /\ x = u.no
      BY <2>1, <2>3
    <2>5. ASSUME NEW w \in InForce(at), w.from = v.from PROVE w.no >= u.no
      <3>1. x <= w.no
        BY <2>1, <2>3, <2>5
      <3>2. w.no \in Nat /\ u.no \in Nat
        BY <1>1, <1>2
      <3> QED
        BY <2>4, <3>1, <3>2
    <2> QED
      BY <2>4, <2>5
  <1>5. \A w \in InForce(at) : w.from < u.from \/ (w.from = u.from /\ w.no >= u.no)
    <2> SUFFICES ASSUME NEW w \in InForce(at) PROVE w.from < u.from \/ (w.from = u.from /\ w.no >= u.no)
      OBVIOUS
    <2>1. w.from <= v.from /\ w.from \in Nat /\ v.from \in Nat
      BY <1>1, <1>2, <1>3
    <2> QED
      BY <1>4, <2>1
  <1>6. PICK z : z = CHOOSE x \in InForce(at) : \A w \in InForce(at) : w.from < x.from \/ (w.from = x.from /\ w.no >= x.no)
    OBVIOUS
  <1>7. z \in InForce(at)
    BY <1>5, <1>6
  <1>8. ActiveVersion(at) = z.no
    BY <1>1, <1>6 DEF ActiveVersion, InForce
  <1> QED
    BY <1>1, <1>2, <1>7, <1>8

\* Adding a version changes nothing before it takes effect.
LEMMA ActiveStays ==
    ASSUME versions \subseteq VersionSet, NEW no, NEW from \in Nat, NEW to, NEW at \in Nat, at < from,
           versions' = versions \cup {[no |-> no, from |-> from, to |-> to]}
    PROVE  ActiveVersion(at)' = ActiveVersion(at)
  <1>1. InForce(at)' = InForce(at)
    BY DEF InForce
  <1>2. PICK F : F = InForce(at)
    OBVIOUS
  <1>3. ActiveVersion(at) = IF F = {} THEN 0 ELSE NewestNo(F)
    BY <1>2 DEF ActiveVersion, InForce, NewestNo
  <1>4. ActiveVersion(at)' = IF F = {} THEN 0 ELSE NewestNo(F)
    <2>1. F = InForce(at)'
      BY <1>1, <1>2
    <2> QED
      BY <2>1 DEF ActiveVersion, InForce, NewestNo
  <1> QED
    BY <1>3, <1>4

\* The bill is the one BilledAsShown allows.
Billed(q, s, promo) ==
    /\ q.shown \in DOMAIN ComponentsOf
    /\ 10 * StepUnit * q.amount - ExactSum(q.shown, UseOf[s]) <= Slack(q.shown)
    /\ ~promo => -Slack(q.shown) <= 10 * StepUnit * q.amount - ExactSum(q.shown, UseOf[s])

\* A session no later version reaches back to will be billed by the version that
\* was active when it began, and a billed one was.
Reduced(s) == \E p \in DOMAIN PromoOf : s \in promoUsed[p]

SessionAsShown(s) ==
    /\ priced[s].pc = "charging" => priced[s].shown = ActiveVersion(priced[s].start)
    /\ priced[s].pc = "billed" => Billed(priced[s], s, Reduced(s))

WithinLimit(p) ==
    /\ IsFiniteSet(promoUsed[p])
    /\ PromoOf[p].limit # -1 => Cardinality(promoUsed[p]) <= PromoOf[p].limit

PrInv ==
    /\ pclock \in 0..MaxPriceClock /\ versions \subseteq VersionSet
    /\ priced \in [PricedSessions -> PricedSet]
    /\ DOMAIN promoUsed = DOMAIN PromoOf /\ promoUsed = [p \in DOMAIN PromoOf |-> promoUsed[p]]
    /\ \A p \in DOMAIN PromoOf : WithinLimit(p)
    /\ \A s \in PricedSessions \ backdated : SessionAsShown(s)

LEMMA PrInvInit == PrInit => PrInv
  <1> SUFFICES ASSUME PrInit PROVE PrInv
    OBVIOUS
  <1>1. pclock \in 0..MaxPriceClock /\ versions \subseteq VersionSet
    BY PrConstants DEF PrInit, VersionSet
  <1>2. Unpriced \in PricedSet /\ Unpriced.pc = "new"
    BY DEF Unpriced, PricedSet
  <1>3. priced \in [PricedSessions -> PricedSet] /\ \A s \in PricedSessions : priced[s].pc = "new"
    BY <1>2 DEF PrInit
  <1>4. ASSUME NEW p \in DOMAIN PromoOf PROVE WithinLimit(p)
    <2>1. promoUsed[p] = {}
      BY DEF PrInit
    <2>2. PromoOf[p].limit # -1 => PromoOf[p].limit >= 0
      <3>1. PromoOf[p] \in Promotion
        BY PricingAssumption
      <3> QED
        BY <3>1 DEF Promotion
    <2>3. IsFiniteSet({}) /\ Cardinality({}) = 0
      BY FS_EmptySet
    <2> QED
      BY <2>1, <2>2, <2>3, PromoFields DEF WithinLimit
  <1>5. DOMAIN promoUsed = DOMAIN PromoOf /\ promoUsed = [p \in DOMAIN PromoOf |-> promoUsed[p]]
    BY DEF PrInit
  <1> QED
    BY <1>1, <1>3, <1>4, <1>5 DEF PrInv, SessionAsShown

LEMMA PrTick ==
    ASSUME PrInv, PriceTick
    PROVE  PrInv'
  <1>1. UNCHANGED <<versions, priced, backdated, promoUsed>> /\ pclock' \in 0..MaxPriceClock
    BY PrConstants DEF PrInv, PriceTick
  <1>2. \A s \in PricedSessions : SessionAsShown(s)' <=> SessionAsShown(s)
    BY <1>1 DEF SessionAsShown, ActiveVersion, Billed, Reduced
  <1> QED
    BY <1>1, <1>2 DEF PrInv, WithinLimit

\* A version is added: the sessions it reaches back to are given up.
LEMMA PrAdds ==
    ASSUME PrInv, NEW no \in DOMAIN ComponentsOf, NEW from \in 0..MaxPriceClock, NEW to \in Int, AddVersion(no, from, to)
    PROVE  PrInv'
  <1>1. /\ versions' = versions \cup {[no |-> no, from |-> from, to |-> to]}
        /\ backdated' = backdated \cup {s \in PricedSessions : priced[s].pc # "new" /\ priced[s].start >= from}
        /\ UNCHANGED <<pclock, priced, promoUsed>>
    BY DEF AddVersion
  <1>2. versions' \subseteq VersionSet
    BY <1>1 DEF PrInv, VersionSet
  <1>3. ASSUME NEW s \in PricedSessions, s \notin backdated' PROVE SessionAsShown(s)'
    <2>1. SessionAsShown(s)
      BY <1>1, <1>3 DEF PrInv
    <2>2. ASSUME priced[s].pc = "charging" PROVE ActiveVersion(priced[s].start)' = ActiveVersion(priced[s].start)
      <3>1. PICK at \in Nat : at = priced[s].start
        BY DEF PrInv, PricedSet
      <3>2. at < from /\ from \in Nat
        BY <1>1, <1>3, <2>2, <3>1, PrConstants
      <3>3. ActiveVersion(at)' = ActiveVersion(at)
        BY <1>1, <3>2, ActiveStays DEF PrInv
      <3>4. priced'[s].start = at
        BY <1>1, <3>1
      <3> QED
        BY <3>1, <3>3, <3>4 DEF ActiveVersion
    <2> QED
      BY <1>1, <2>1, <2>2 DEF SessionAsShown, Reduced
  <1> QED
    BY <1>1, <1>2, <1>3 DEF PrInv, WithinLimit

LEMMA PrBegins ==
    ASSUME PrInv, NEW s \in PricedSessions, SessionBegins(s)
    PROVE  PrInv'
  <1>1. PICK v : v = ActiveVersion(pclock)
    OBVIOUS
  <1>2. /\ v # 0 /\ UNCHANGED <<pclock, versions, backdated, promoUsed>>
        /\ priced' = [priced EXCEPT ![s].pc = "charging", ![s].start = pclock, ![s].shown = v]
    BY <1>1 DEF SessionBegins
  <1>3. v \in Int /\ pclock \in Nat
    <2>1. v \in DOMAIN ComponentsOf
      BY <1>1, <1>2, ActiveIsAVersion DEF PrInv
    <2> QED
      BY <2>1, PrConstants DEF PrInv
  <1>4. PICK q : q = [priced[s] EXCEPT !.pc = "charging", !.start = pclock, !.shown = v]
    OBVIOUS
  <1>5. priced[s] \in PricedSet
    BY DEF PrInv
  <1>6. q \in PricedSet /\ q.pc = "charging" /\ q.start = pclock /\ q.shown = v
    BY <1>3, <1>4, <1>5 DEF PricedSet
  <1>7. priced' = [priced EXCEPT ![s] = q]
    BY <1>2, <1>4 DEF PrInv
  <1>8. priced' \in [PricedSessions -> PricedSet] /\ priced'[s] = q /\ \A t \in PricedSessions : t # s => priced'[t] = priced[t]
    BY <1>6, <1>7 DEF PrInv
  <1>9. ASSUME NEW t \in PricedSessions \ backdated PROVE SessionAsShown(t)'
    <2>1. CASE t = s
      <3>1. priced'[s].start = pclock /\ versions' = versions
        BY <1>2, <1>6, <1>8
      <3>2. ActiveVersion(priced[s].start)' = v
        BY SMTT(40), <1>1, <3>1 DEF ActiveVersion
      <3> QED
        BY <1>6, <1>8, <2>1, <3>2 DEF SessionAsShown
    <2>2. CASE t # s
      <3>1. SessionAsShown(t) /\ priced'[t] = priced[t] /\ (Reduced(t)' <=> Reduced(t))
        BY <1>2, <1>8, <1>9, <2>2 DEF PrInv, Reduced
      <3>2. Billed(priced[t], t, Reduced(t)) => Billed(priced'[t], t, Reduced(t)')
        BY <3>1 DEF Billed
      <3>3. ActiveVersion(priced[t].start)' = ActiveVersion(priced[t].start)
        <4>1. PICK at : at = priced[t].start /\ at = priced'[t].start
          BY <3>1
        <4>2. ActiveVersion(at)' = ActiveVersion(at)
          BY <1>2 DEF ActiveVersion
        <4> QED
          BY <4>1, <4>2 DEF ActiveVersion
      <3> QED
        BY <3>1, <3>2, <3>3 DEF SessionAsShown
    <2> QED
      BY <2>1, <2>2
  <1> QED
    BY <1>2, <1>8, <1>9 DEF PrInv, WithinLimit

\* A session is billed a, its cost or with a promo code less.
LEMMA PrBills ==
    ASSUME PrInv, NEW s \in PricedSessions, NEW a, NEW cost,
           cost = SessionCost(ActiveVersion(priced[s].start), UseOf[s]), Bill(s, a),
           cost \in Nat => a \in Nat /\ a <= cost /\ (a = cost \/ Reduced(s)'),
           \A t \in PricedSessions : t # s => (Reduced(t)' <=> Reduced(t)),
           promoUsed' = [p \in DOMAIN PromoOf |-> promoUsed'[p]],
           \A p \in DOMAIN PromoOf : WithinLimit(p)'
    PROVE  PrInv'
  <1>1. PICK v : v = ActiveVersion(priced[s].start)
    OBVIOUS
  <1>4. /\ v # 0 /\ priced[s].pc = "charging" /\ UNCHANGED <<pclock, versions, backdated>>
        /\ priced' = [priced EXCEPT ![s].pc = "billed", ![s].amount = a]
    BY <1>1 DEF Bill, BilledVersion
  <1>5. v \in DOMAIN ComponentsOf
    BY <1>1, <1>4, ActiveIsAVersion DEF PrInv
  <1>6. PICK use \in UseSet : use = UseOf[s]
    BY PrConstants DEF UseSet
  <1>7. /\ cost \in Nat /\ ExactSum(v, use) \in Int /\ Slack(v) \in Nat
        /\ 10 * StepUnit * cost - ExactSum(v, use) <= Slack(v)
        /\ -Slack(v) <= 10 * StepUnit * cost - ExactSum(v, use)
    BY <1>1, <1>5, <1>6, CostClose
  <1>8. a \in Nat /\ a <= cost /\ (~Reduced(s)' => a = cost)
    BY <1>7
  <1>9. PICK q : q = [priced[s] EXCEPT !.pc = "billed", !.amount = a]
    OBVIOUS
  <1>10. priced[s] \in PricedSet
    BY DEF PrInv
  <1>11. q \in PricedSet /\ q.pc = "billed" /\ q.shown = priced[s].shown /\ q.amount = a
    BY <1>8, <1>9, <1>10 DEF PricedSet
  <1>12. priced' = [priced EXCEPT ![s] = q]
    BY <1>4, <1>9 DEF PrInv
  <1>13. priced' \in [PricedSessions -> PricedSet] /\ priced'[s] = q /\ \A t \in PricedSessions : t # s => priced'[t] = priced[t]
    BY <1>11, <1>12 DEF PrInv
  <1>14. ASSUME NEW t \in PricedSessions \ backdated PROVE SessionAsShown(t)'
    <2>1. CASE t = s
      <3>1. q.shown = v
        BY <1>1, <1>4, <1>11, <1>14, <2>1 DEF PrInv, SessionAsShown
      <3>2. PICK k \in Nat, e \in Int, b \in Nat : k = 10 * StepUnit /\ e = ExactSum(v, use) /\ b = Slack(v)
        BY <1>7, PrConstants
      <3>3. k * a <= k * cost /\ k * a \in Int /\ k * cost \in Int
        BY <1>7, <1>8, Monotone
      <3>4. k * cost - e <= b /\ -b <= k * cost - e
        BY <1>7, <3>2
      <3>5. k * a - e <= b /\ (~Reduced(s)' => -b <= k * a - e)
        BY <1>8, <3>3, <3>4
      <3>7. Billed(q, s, Reduced(s)')
        BY <1>5, <1>6, <1>11, <3>1, <3>2, <3>5 DEF Billed
      <3> QED
        BY <1>11, <1>13, <2>1, <3>7 DEF SessionAsShown
    <2>2. CASE t # s
      <3>1. SessionAsShown(t) /\ priced'[t] = priced[t] /\ (Reduced(t)' <=> Reduced(t))
        BY <1>4, <1>13, <1>14, <2>2 DEF PrInv
      <3>2. Billed(priced[t], t, Reduced(t)) => Billed(priced'[t], t, Reduced(t)')
        BY <3>1 DEF Billed
      <3>3. ActiveVersion(priced[t].start)' = ActiveVersion(priced[t].start)
        <4>1. PICK at : at = priced[t].start /\ at = priced'[t].start
          BY <3>1
        <4>2. ActiveVersion(at)' = ActiveVersion(at)
          BY SMTT(40), <1>4 DEF ActiveVersion
        <4> QED
          BY SMTT(40), <4>1, <4>2 DEF ActiveVersion
      <3> QED
        BY <3>1, <3>2, <3>3 DEF SessionAsShown
    <2> QED
      BY <2>1, <2>2
  <1>15. DOMAIN promoUsed' = DOMAIN PromoOf
    OBVIOUS
  <1> QED
    BY <1>4, <1>13, <1>14, <1>15 DEF PrInv

LEMMA PrPriced ==
    ASSUME PrInv, NEW s \in PricedSessions, SessionIsPriced(s)
    PROVE  PrInv'
  <1>1. PICK cost : cost = SessionCost(ActiveVersion(priced[s].start), UseOf[s])
    OBVIOUS
  <1>2. Bill(s, cost) /\ promoUsed' = promoUsed
    BY <1>1 DEF SessionIsPriced, BilledVersion
  <1>3. /\ \A t \in PricedSessions : Reduced(t)' <=> Reduced(t)
        /\ promoUsed' = [p \in DOMAIN PromoOf |-> promoUsed'[p]]
        /\ \A p \in DOMAIN PromoOf : WithinLimit(p)'
    BY <1>2 DEF Reduced, WithinLimit, PrInv
  <1>4. cost \in Nat => cost <= cost
    OBVIOUS
  <1> QED
    BY <1>1, <1>2, <1>3, <1>4, PrBills

LEMMA PrPricedWithPromo ==
    ASSUME PrInv, NEW s \in PricedSessions, NEW p \in DOMAIN PromoOf, SessionIsPricedWithPromo(s, p)
    PROVE  PrInv'
  <1>1. PICK cost : cost = SessionCost(ActiveVersion(priced[s].start), UseOf[s])
    OBVIOUS
  <1>2. PICK a : a = Discounted(cost, p)
    OBVIOUS
  <1>3. /\ Bill(s, a) /\ promoUsed' = [promoUsed EXCEPT ![p] = promoUsed[p] \cup {s}]
        /\ PromoOf[p].limit # -1 => Cardinality(promoUsed[p]) < PromoOf[p].limit
    BY <1>1, <1>2 DEF SessionIsPricedWithPromo, BilledVersion, Redeemable
  <1>4. /\ promoUsed' = [u \in DOMAIN PromoOf |-> promoUsed'[u]] /\ promoUsed'[p] = promoUsed[p] \cup {s}
        /\ \A u \in DOMAIN PromoOf : u # p => promoUsed'[u] = promoUsed[u]
    BY <1>3 DEF PrInv
  <1>5. Reduced(s)' /\ \A t \in PricedSessions : t # s => (Reduced(t)' <=> Reduced(t))
    BY <1>4 DEF Reduced
  <1>6. cost \in Nat => a \in Nat /\ a <= cost
    BY <1>2, DiscountLowers
  <1>7. ASSUME NEW u \in DOMAIN PromoOf PROVE WithinLimit(u)'
    <2>1. CASE u # p
      BY <1>4, <2>1 DEF PrInv, WithinLimit
    <2>2. CASE u = p
      <3>1. IsFiniteSet(promoUsed[p])
        BY DEF PrInv, WithinLimit
      <3>2. /\ IsFiniteSet(promoUsed[p] \cup {s}) /\ Cardinality(promoUsed[p]) \in Nat
            /\ Cardinality(promoUsed[p] \cup {s}) \in Nat
            /\ Cardinality(promoUsed[p] \cup {s}) <= Cardinality(promoUsed[p]) + 1
        <4>1. PICK T : T = promoUsed[p]
          OBVIOUS
        <4>2. IsFiniteSet(T) /\ Cardinality(T) \in Nat
          BY <3>1, <4>1, FS_CardinalityType
        <4>3. PICK n \in Nat : n = Cardinality(T)
          BY <4>2
        <4>4. IsFiniteSet(T \cup {s}) /\ Cardinality(T \cup {s}) = IF s \in T THEN n ELSE n + 1
          BY <4>2, <4>3, FS_AddElement
        <4>5. PICK m \in Nat : m = Cardinality(T \cup {s}) /\ m <= n + 1
          BY <4>4
        <4> QED
          BY <4>1, <4>3, <4>4, <4>5
      <3>3. PromoOf[p].limit \in Int
        BY PromoFields
      <3>4. PromoOf[p].limit # -1 => Cardinality(promoUsed[p] \cup {s}) <= PromoOf[p].limit
        BY <1>3, <3>2, <3>3
      <3> QED
        BY <1>4, <2>2, <3>2, <3>4 DEF WithinLimit
    <2> QED
      BY <2>1, <2>2
  <1> QED
    BY <1>1, <1>3, <1>4, <1>5, <1>6, <1>7, PrBills

LEMMA PrInvNext == PrInv /\ [PrNext]_prVars => PrInv'
  <1> SUFFICES ASSUME PrInv, [PrNext]_prVars PROVE PrInv'
    OBVIOUS
  <1>1. ASSUME NEW no \in DOMAIN ComponentsOf, NEW from \in 0..MaxPriceClock,
               AddVersion(no, from, -1) \/ AddVersion(no, from, from + 1)
        PROVE  PrInv'
    <2>1. -1 \in Int /\ from + 1 \in Int
      OBVIOUS
    <2> QED
      BY <1>1, <2>1, PrAdds
  <1>2. CASE UNCHANGED prVars
    BY <1>2 DEF prVars, PrInv, SessionAsShown, ActiveVersion, Billed, Reduced, WithinLimit
  <1> QED
    BY <1>1, <1>2, PrTick, PrBegins, PrPriced, PrPricedWithPromo DEF PrNext

\* Versions are added while sessions charge, and each component is rounded by
\* itself (calculate_session_cost): unless a version was added with an effect in the
\* session's past, the bill is within half a minor unit for each component but the
\* flat ones of the exact price under the version that was active when it began,
\* and a promo code, percent or flat, used by usage_limit sessions at most where it
\* has a limit (redeem_promo_code, apply_discount), only lowers it.  For any tariff
\* whose steps divide StepUnit, any use and any promo codes.
THEOREM BillIsThePriceShown == PrSpec => []BilledAsShown
  <1>1. PrSpec => []PrInv
    BY PrInvInit, PrInvNext, PTL DEF PrSpec
  <1>2. PrInv => BilledAsShown
    <2> SUFFICES ASSUME PrInv PROVE BilledAsShown
      OBVIOUS
    <2>1. ASSUME NEW s \in PricedSessions \ backdated, priced[s].pc = "billed"
          PROVE  Billed(priced[s], s, Reduced(s))
      BY <2>1 DEF PrInv, SessionAsShown
    <2>2. \A p \in DOMAIN PromoOf : PromoOf[p].limit # -1 => Cardinality(promoUsed[p]) <= PromoOf[p].limit
      BY DEF PrInv, WithinLimit
    <2> QED
      BY <2>1, <2>2 DEF BilledAsShown, Billed, Reduced, ExactSum, ExactOf, Slack
  <1> QED
    BY <1>1, <1>2, PTL

(***************************************************************************)
(* FleetReports                                                            *)
(***************************************************************************)

UsageSet == [day : 0..NumDays, driver : FleetDrivers \cup {"none"}, site : AllSites, cost : Nat]

\* A session that has not ended has not been counted, one that has has a driver.
UsageOK ==
    /\ usage \in [FleetSessions -> UsageSet] /\ counted \in [FleetSessions -> Nat]
    /\ \A s \in FleetSessions : /\ usage[s].day \in Days => usage[s].driver \in FleetDrivers
                                /\ usage[s].day \notin Days => counted[s] = 0

\* A row's rollup is one of those of its day.
RowOK(r) ==
    /\ r.day \in Days /\ r.n \in Nat /\ r.n <= runCount[r.day]
    /\ r.driver \in FleetDrivers /\ r.site \in AllSites /\ r.cost \in Nat

RowsOK ==
    /\ runCount \in [Days -> Nat] /\ IsFiniteSet(rollups)
    /\ \A r \in rollups : RowOK(r)

Within(from, to) == {s \in FleetSessions : from <= usage[s].day /\ usage[s].day <= to}
TimesCounted == [s \in FleetSessions |-> usage[s].cost * counted[s]]

\* For every range of days, the rows add up to the sessions, as often as counted.
RowsAddUp == \A from, to \in Days : SumOver(RowCost, InRange(from, to)) = SumOver(TimesCounted, Within(from, to))

FrInv == UsageOK /\ RowsOK /\ RowsAddUp

LEMMA FrConstants ==
    /\ NumDays \in Nat /\ Days \subseteq Nat /\ Days \subseteq 0..NumDays /\ 0 \notin Days
    /\ IsFiniteSet(FleetSessions) /\ IsFiniteSet(FleetDrivers \cup AllSites)
  <1>1. IsFiniteSet(FleetDrivers) /\ IsFiniteSet(Sites) /\ IsFiniteSet({NoSite})
    BY FleetReportsAssumption, FS_Singleton
  <1>2. IsFiniteSet(AllSites)
    BY <1>1, FS_Union DEF AllSites
  <1>3. IsFiniteSet(FleetDrivers \cup AllSites)
    BY <1>1, <1>2, FS_Union
  <1> QED
    BY <1>3, FleetReportsAssumption DEF Days

LEMMA CountsTyped ==
    ASSUME UsageOK
    PROVE  \A s \in FleetSessions : /\ usage[s] \in UsageSet /\ usage[s].day \in Nat /\ usage[s].cost \in Nat
                                    /\ counted[s] \in Nat /\ TimesCounted[s] = usage[s].cost * counted[s]
                                    /\ TimesCounted[s] \in Int /\ UsageCost[s] = usage[s].cost
  <1>1. \A s \in FleetSessions : usage[s] \in UsageSet /\ counted[s] \in Nat
    BY DEF UsageOK
  <1>2. \A s \in FleetSessions : usage[s].day \in Nat /\ usage[s].cost \in Nat
    BY <1>1, FrConstants DEF UsageSet
  <1> QED
    BY <1>1, <1>2 DEF TimesCounted, UsageCost

LEMMA WithinIsFinite ==
    ASSUME NEW from, NEW to
    PROVE  Within(from, to) \subseteq FleetSessions /\ IsFiniteSet(Within(from, to))
  <1>1. Within(from, to) \subseteq FleetSessions
    BY DEF Within
  <1> QED
    BY <1>1, FrConstants, FS_Subset

LEMMA FrInvInit == FrInit => FrInv
  <1> SUFFICES ASSUME FrInit PROVE FrInv
    OBVIOUS
  <1>1. Unused \in UsageSet /\ Unused.day = 0
    BY FrConstants DEF Unused, UsageSet, AllSites
  <1>2. \A s \in FleetSessions : usage[s] = Unused /\ counted[s] = 0
    BY DEF FrInit
  <1>3. UsageOK
    BY <1>1, <1>2, FrConstants DEF FrInit, UsageOK
  <1>4. RowsOK
    BY FS_EmptySet DEF FrInit, RowsOK
  <1>5. ASSUME NEW from \in Days, NEW to \in Days
        PROVE  SumOver(RowCost, InRange(from, to)) = SumOver(TimesCounted, Within(from, to))
    <2>1. InRange(from, to) = {}
      BY DEF FrInit, InRange
    <2>2. Within(from, to) = {}
      BY <1>1, <1>2, FrConstants DEF Within
    <2>3. SumOver(RowCost, {}) = 0 /\ SumOver(TimesCounted, {}) = 0
      BY SumEmpty
    <2> QED
      BY <2>1, <2>2, <2>3
  <1> QED
    BY <1>3, <1>4, <1>5 DEF FrInv, RowsAddUp

\* A session that ends counts for nothing before a rollup has counted it.
LEMMA FrRecords ==
    ASSUME FrInv, NEW s \in FleetSessions, NEW day \in Days, NEW who \in FleetDrivers, NEW site \in AllSites, NEW cost \in Costs,
           SessionRecorded(s, day, who, site, cost)
    PROVE  FrInv'
  <1>1. PICK q : q = [day |-> day, driver |-> who, site |-> site, cost |-> cost]
    OBVIOUS
  <1>2. cost \in Nat
    BY FleetReportsAssumption
  <1>3. q \in UsageSet /\ q.day = day /\ q.driver = who
    BY <1>1, <1>2, FrConstants DEF UsageSet
  <1>4. usage' = [usage EXCEPT ![s] = q] /\ usage[s] = Unused /\ UNCHANGED <<rollups, runCount, incomplete, counted>>
    BY <1>1 DEF SessionRecorded
  <1>5. usage' \in [FleetSessions -> UsageSet] /\ usage'[s] = q /\ \A x \in FleetSessions : x # s => usage'[x] = usage[x]
    BY <1>3, <1>4 DEF FrInv, UsageOK
  <1>6. counted[s] = 0 /\ usage[s].day = 0
    BY <1>4, FrConstants DEF FrInv, UsageOK, Unused
  <1>7. UsageOK'
    BY <1>3, <1>4, <1>5 DEF FrInv, UsageOK
  <1>8. RowsOK'
    BY <1>4 DEF FrInv, RowsOK, RowOK
  <1>9. ASSUME NEW from \in Days, NEW to \in Days
        PROVE  SumOver(RowCost', InRange(from, to)') = SumOver(TimesCounted', Within(from, to)')
    <2>1. PICK g, h : g = TimesCounted /\ h = TimesCounted'
      OBVIOUS
    <2>2. PICK W : W = Within(from, to)
      OBVIOUS
    <2>3. W \subseteq FleetSessions /\ IsFiniteSet(W) /\ s \notin W
      <3>1. ~(from <= 0)
        BY FleetReportsAssumption DEF Days
      <3>2. s \notin W
        BY <1>6, <2>2, <3>1 DEF Within
      <3> QED
        BY <2>2, <3>2, WithinIsFinite
    <2>4. RowCost' = RowCost /\ InRange(from, to)' = InRange(from, to)
      BY <1>4 DEF RowCost, InRange
    <2>5. \A x \in FleetSessions : x # s => h[x] = g[x]
      BY <1>4, <1>5, <2>1 DEF TimesCounted
    <2>6. h[s] = 0
      <3>1. h[s] = q.cost * 0
        BY <1>4, <1>5, <1>6, <2>1 DEF TimesCounted
      <3>2. q.cost \in Nat
        BY <1>3 DEF UsageSet
      <3> QED
        BY <3>1, <3>2
    <2>7. SumOver(h, W) = SumOver(g, W)
      BY <2>3, <2>5, SumAgrees
    <2>8. SumOver(h, Within(from, to)') = SumOver(h, W)
      <3>1. CASE from <= day /\ day <= to
        <4>1. Within(from, to)' = W \cup {s}
          BY <1>3, <1>5, <2>2, <3>1 DEF Within
        <4>2. PICK V : V = W \cup {s}
          OBVIOUS
        <4>3. IsFiniteSet(V) /\ s \in V /\ V \ {s} = W
          BY <2>3, <4>2, FS_AddElement
        <4>4. \A x \in V : h[x] \in Int
          BY <2>1, <2>3, <2>5, <2>6, <4>2, CountsTyped DEF FrInv
        <4>5. SumOver(h, V) = h[s] + SumOver(h, W)
          BY <4>3, <4>4, SumRemove
        <4>6. SumOver(h, W) \in Int
          BY <2>3, <4>2, <4>4, SumIsInt
        <4> QED
          BY <2>6, <4>1, <4>2, <4>5, <4>6
      <3>2. CASE ~(from <= day /\ day <= to)
        <4>1. Within(from, to)' = W
          BY <1>3, <1>5, <2>2, <2>3, <3>2 DEF Within
        <4> QED
          BY <4>1
      <3> QED
        BY <3>1, <3>2
    <2> QED
      BY <2>1, <2>2, <2>4, <2>7, <2>8 DEF FrInv, RowsAddUp
  <1> QED
    BY <1>7, <1>8, <1>9 DEF FrInv, RowsAddUp

LEMMA OfDayIsFinite ==
    ASSUME NEW day
    PROVE  OfDay(day) \subseteq FleetSessions /\ IsFiniteSet(OfDay(day))
  <1>1. OfDay(day) \subseteq FleetSessions
    BY DEF OfDay
  <1> QED
    BY <1>1, FrConstants, FS_Subset

GroupOf(day, s) == {x \in OfDay(day) : usage[x].driver = usage[s].driver /\ usage[x].site = usage[s].site}

LEMMA RowFields ==
    ASSUME UsageOK, NEW n, NEW day \in Days, NEW s \in OfDay(day)
    PROVE  /\ RollupRow(n, day, s).n = n /\ RollupRow(n, day, s).day = day
           /\ RollupRow(n, day, s).driver = usage[s].driver /\ RollupRow(n, day, s).site = usage[s].site
           /\ RollupRow(n, day, s).cost = SumOver(UsageCost, GroupOf(day, s))
           /\ RollupRow(n, day, s).cost \in Nat
           /\ usage[s].driver \in FleetDrivers /\ usage[s].site \in AllSites
  <1>1. PICK G : G = GroupOf(day, s)
    OBVIOUS
  <1>2. PICK total : total = SumOver(UsageCost, G)
    OBVIOUS
  <1>3. RollupRow(n, day, s) = [n |-> n, driver |-> usage[s].driver, site |-> usage[s].site, day |-> day,
                                count |-> Cardinality(G), cost |-> total]
    BY <1>1, <1>2 DEF RollupRow, GroupOf, SumOver
  <1>4. total \in Nat
    <2>1. G \subseteq FleetSessions
      BY <1>1, OfDayIsFinite DEF GroupOf
    <2>2. IsFiniteSet(G)
      BY <2>1, FrConstants, FS_Subset
    <2>3. \A x \in G : UsageCost[x] \in Nat
      BY <2>1, CountsTyped
    <2> QED
      BY <1>2, <2>2, <2>3, SumBoundsSupport
  <1>5. s \in FleetSessions /\ usage[s].day = day
    BY DEF OfDay
  <1>6. usage[s].driver \in FleetDrivers /\ usage[s].site \in AllSites
    BY <1>5 DEF UsageOK, UsageSet
  <1> QED
    BY <1>1, <1>2, <1>3, <1>4, <1>6

\* The rows of a rollup add up to the day's sessions.
LEMMA RowsOfDay ==
    ASSUME UsageOK, NEW n, NEW day \in Days, NEW g, \A r \in RollupRows(n, day) : g[r] = r.cost
    PROVE  /\ IsFiniteSet(RollupRows(n, day))
           /\ SumOver(g, RollupRows(n, day)) = SumOver(UsageCost, OfDay(day))
  <1>1. PICK D : D = OfDay(day)
    OBVIOUS
  <1>2. PICK f : f = [s \in D |-> RollupRow(n, day, s)]
    OBVIOUS
  <1>3. PICK R : R = RollupRows(n, day)
    OBVIOUS
  <1>4. R = {f[s] : s \in D}
    BY <1>1, <1>2, <1>3 DEF RollupRows
  <1>5. D \subseteq FleetSessions /\ IsFiniteSet(D)
    BY <1>1, OfDayIsFinite
  <1>6. IsFiniteSet(R)
    <2>1. f \in Surjection(D, R)
      BY <1>2, <1>4 DEF Surjection
    <2> QED
      BY <1>5, <2>1, FS_Surjection
  <1>7. \A s \in D : f[s] \in R /\ UsageCost[s] \in Int
    BY <1>4, <1>5, CountsTyped
  <1>8. SumOver(GroupSums(UsageCost, f, D, R), R) = SumOver(UsageCost, D)
    BY <1>5, <1>6, <1>7, SumByKey
  <1>9. ASSUME NEW r \in R PROVE GroupSums(UsageCost, f, D, R)[r] = g[r]
    <2>1. PICK s \in D : r = RollupRow(n, day, s)
      BY <1>2, <1>4
    <2>2. Group(f, D, r) = GroupOf(day, s)
      <3>1. ASSUME NEW x \in D, f[x] = r PROVE usage[x].driver = usage[s].driver /\ usage[x].site = usage[s].site
        <4>1. RollupRow(n, day, x) = RollupRow(n, day, s)
          BY <1>2, <2>1, <3>1
        <4> QED
          BY <1>1, <4>1, RowFields
      <3>2. ASSUME NEW x \in D, usage[x].driver = usage[s].driver, usage[x].site = usage[s].site PROVE f[x] = r
        BY <1>2, <2>1, <3>2 DEF RollupRow
      <3> QED
        BY <1>1, <3>1, <3>2 DEF Group, GroupOf
    <2>3. r.cost = SumOver(UsageCost, GroupOf(day, s))
      BY <1>1, <2>1, RowFields
    <2> QED
      BY <1>3, <2>2, <2>3 DEF GroupSums
  <1>10. SumOver(g, R) = SumOver(GroupSums(UsageCost, f, D, R), R)
    BY <1>6, <1>9, SumAgrees
  <1> QED
    BY <1>1, <1>3, <1>6, <1>8, <1>10

\* A rollup adds the rows of its day, and counts each session of the day once more.
LEMMA FrRollsUp ==
    ASSUME FrInv, NEW day \in Days, RunDailyRollup(day)
    PROVE  FrInv'
  <1>1. PICK n : n = runCount[day] + 1
    OBVIOUS
  <1>2. PICK R : R = RollupRows(n, day)
    OBVIOUS
  <1>3. PICK D : D = OfDay(day)
    OBVIOUS
  <1>4. /\ runCount' = [runCount EXCEPT ![day] = n] /\ rollups' = rollups \cup R
        /\ counted' = [s \in FleetSessions |-> IF s \in D THEN counted[s] + 1 ELSE counted[s]]
        /\ UNCHANGED <<usage, incomplete>>
    BY <1>1, <1>2, <1>3 DEF RunDailyRollup
  <1>5. /\ runCount \in [Days -> Nat] /\ n \in Nat /\ IsFiniteSet(rollups) /\ \A r \in rollups : RowOK(r)
    BY <1>1 DEF FrInv, RowsOK
  <1>6. ASSUME NEW r \in R PROVE r.n = n /\ r.day = day /\ r.driver \in FleetDrivers /\ r.site \in AllSites /\ r.cost \in Nat
    <2>1. PICK s \in OfDay(day) : r = RollupRow(n, day, s)
      BY <1>2 DEF RollupRows
    <2> QED
      BY <2>1, RowFields DEF FrInv
  <1>7. rollups \cap R = {}
    <2> SUFFICES ASSUME NEW r \in rollups, r \in R PROVE FALSE
      OBVIOUS
    <2>1. r.n = n /\ r.day = day /\ r.n <= runCount[r.day]
      BY <1>5, <1>6 DEF RowOK
    <2> QED
      BY <1>1, <1>5, <2>1
  <1>8. UsageOK'
    <2>1. counted' \in [FleetSessions -> Nat] /\ \A s \in FleetSessions : s \notin D => counted'[s] = counted[s]
      BY <1>4, CountsTyped DEF FrInv
    <2>2. \A s \in D : usage[s].day \in Days
      BY <1>3 DEF OfDay
    <2> QED
      BY <1>4, <2>1, <2>2 DEF FrInv, UsageOK
  <1>9. PICK g, h : g = RowCost /\ h = RowCost'
    OBVIOUS
  <1>10. /\ \A r \in rollups : g[r] = r.cost /\ h[r] = r.cost /\ r.cost \in Int
         /\ \A r \in R : h[r] = r.cost /\ r.cost \in Int
    BY <1>4, <1>5, <1>6, <1>9 DEF RowCost, RowOK
  <1>11. IsFiniteSet(R) /\ SumOver(h, R) = SumOver(UsageCost, D)
    BY <1>2, <1>3, <1>10, RowsOfDay DEF FrInv
  <1>12. RowsOK'
    <2>1. IsFiniteSet(rollups')
      BY <1>4, <1>5, <1>11, FS_Union
    <2>2. runCount' \in [Days -> Nat]
      BY <1>4, <1>5
    <2>3. ASSUME NEW r \in rollups PROVE RowOK(r)'
      <3>1. RowOK(r)
        BY <1>5
      <3>2. runCount[r.day] <= runCount'[r.day]
        BY <1>1, <1>4, <1>5, <3>1 DEF RowOK
      <3>3. runCount[r.day] \in Nat /\ runCount'[r.day] \in Nat
        BY <1>5, <2>2, <3>1 DEF RowOK
      <3> QED
        BY <3>1, <3>2, <3>3 DEF RowOK
    <2>4. ASSUME NEW r \in R PROVE RowOK(r)'
      <3>1. runCount'[day] = n
        BY <1>4, <1>5
      <3> QED
        BY <1>5, <1>6, <3>1 DEF RowOK
    <2> QED
      BY <1>4, <2>1, <2>2, <2>3, <2>4 DEF RowsOK
  <1>13. ASSUME NEW from \in Days, NEW to \in Days
         PROVE  SumOver(RowCost', InRange(from, to)') = SumOver(TimesCounted', Within(from, to)')
    <2>1. PICK W : W = Within(from, to)
      OBVIOUS
    <2>2. PICK I : I = InRange(from, to)
      OBVIOUS
    <2>3. PICK t, u : t = TimesCounted /\ u = TimesCounted'
      OBVIOUS
    <2>4. Within(from, to)' = W
      BY <1>4, <2>1 DEF Within
    <2>5. W \subseteq FleetSessions /\ IsFiniteSet(W)
      BY <2>1, WithinIsFinite
    <2>6. I \subseteq rollups /\ IsFiniteSet(I)
      <3>1. I \subseteq rollups
        BY <2>2 DEF InRange
      <3> QED
        BY <1>5, <3>1, FS_Subset
    <2>7. SumOver(g, I) = SumOver(t, W)
      BY <1>9, <2>1, <2>2, <2>3 DEF FrInv, RowsAddUp
    <2>8. SumOver(h, I) = SumOver(g, I)
      BY <1>10, <2>6, SumAgrees
    <2>9. D \subseteq FleetSessions /\ IsFiniteSet(D)
      BY <1>3, OfDayIsFinite
    <2>10. \A s \in FleetSessions : /\ t[s] = usage[s].cost * counted[s] /\ t[s] \in Int
                                    /\ u[s] = usage[s].cost * counted'[s] /\ UsageCost[s] = usage[s].cost
                                    /\ usage[s].cost \in Nat /\ counted[s] \in Nat
      BY <1>4, <2>3, CountsTyped DEF FrInv, TimesCounted
    <2>11. \A s \in FleetSessions : s \notin D => u[s] = t[s]
      BY <1>4, <2>10
    <2>12. \A s \in D : u[s] = t[s] + UsageCost[s]
      <3> SUFFICES ASSUME NEW s \in D PROVE u[s] = t[s] + UsageCost[s]
        OBVIOUS
      <3>1. PICK a \in Nat, b \in Nat : a = usage[s].cost /\ b = counted[s] /\ counted'[s] = b + 1
        BY <1>4, <2>9, <2>10
      <3>2. a * (b + 1) = a * b + a
        OBVIOUS
      <3> QED
        BY <2>9, <2>10, <3>1, <3>2
    <2>13. CASE from <= day /\ day <= to
      <3>1. InRange(from, to)' = I \cup R
        BY <1>4, <1>6, <2>2, <2>13 DEF InRange
      <3>2. SumOver(h, I \cup R) = SumOver(h, I) + SumOver(h, R)
        <4>1. I \cap R = {}
          BY <1>7, <2>6
        <4>2. \A r \in I \cup R : h[r] \in Int
          BY <1>10, <2>6
        <4> QED
          BY <1>11, <2>6, <4>1, <4>2, SumUnion
      <3>3. D \subseteq W
        BY <1>3, <2>1, <2>13 DEF OfDay, Within
      <3>4. PICK d : d = [s \in W |-> IF s \in D THEN UsageCost[s] ELSE 0]
        OBVIOUS
      <3>5. SumOver(u, W) = SumOver(t, W) + SumOver(d, W)
        <4>1. \A s \in W : t[s] \in Int /\ d[s] \in Int /\ u[s] = t[s] + d[s]
          BY <2>5, <2>10, <2>11, <2>12, <3>4
        <4> QED
          BY <2>5, <4>1, SumPlus
      <3>6. SumOver(d, W) = SumOver(UsageCost, D)
        <4>1. PICK V : V = W \ D
          OBVIOUS
        <4>2. IsFiniteSet(V) /\ D \cup V = W /\ D \cap V = {}
          BY <2>5, <3>3, <4>1, FS_Subset
        <4>3. SumOver(d, D \cup V) = SumOver(d, D) + SumOver(d, V)
          <5>1. \A s \in D \cup V : d[s] \in Int
            BY <2>5, <2>10, <3>4, <4>2
          <5> QED
            BY <2>9, <4>2, <5>1, SumUnion
        <4>4. SumOver(d, V) = 0
          BY <3>4, <4>1, <4>2, SumOfZeros
        <4>5. SumOver(d, D) = SumOver(UsageCost, D)
          BY <2>9, <3>3, <3>4, SumAgrees
        <4>6. SumOver(UsageCost, D) \in Int
          BY <2>9, <2>10, SumIsInt
        <4>7. SumOver(d, W) = SumOver(d, D) + SumOver(d, V)
          BY <4>2, <4>3, Zenon
        <4> QED
          BY <4>4, <4>5, <4>6, <4>7
      <3> QED
        BY <1>9, <1>11, <2>3, <2>4, <2>7, <2>8, <3>1, <3>2, <3>5, <3>6
    <2>14. CASE ~(from <= day /\ day <= to)
      <3>1. InRange(from, to)' = I
        BY <1>4, <1>6, <2>2, <2>14 DEF InRange
      <3>2. \A s \in W : s \notin D
        BY <1>3, <2>1, <2>14 DEF OfDay, Within
      <3>3. SumOver(u, W) = SumOver(t, W)
        BY <2>5, <2>11, <3>2, SumAgrees
      <3> QED
        BY <1>9, <2>3, <2>4, <2>7, <2>8, <3>1, <3>3
    <2> QED
      BY <2>13, <2>14
  <1> QED
    BY <1>8, <1>12, <1>13 DEF FrInv, RowsAddUp

LEMMA FrInvNext == FrInv /\ [FrNext]_frVars => FrInv'
  <1> SUFFICES ASSUME FrInv, [FrNext]_frVars PROVE FrInv'
    OBVIOUS
  <1>1. CASE (\E day \in Days : RollupFails(day)) \/ UNCHANGED frVars
    <2>1. UNCHANGED <<usage, rollups, runCount, counted>>
      BY <1>1 DEF RollupFails, frVars
    <2>2. UsageOK' /\ RowsOK'
      BY <2>1 DEF FrInv, UsageOK, RowsOK, RowOK
    <2>3. RowCost' = RowCost /\ TimesCounted' = TimesCounted
      BY <2>1 DEF RowCost, TimesCounted
    <2>4. \A from, to \in Days : InRange(from, to)' = InRange(from, to) /\ Within(from, to)' = Within(from, to)
      BY <2>1 DEF InRange, Within
    <2>5. RowsAddUp'
      BY <2>3, <2>4 DEF FrInv, RowsAddUp
    <2> QED
      BY <2>2, <2>5 DEF FrInv
  <1> QED
    BY <1>1, FrRecords, FrRollsUp DEF FrNext

\* A report by driver or by site adds up the same rows.
LEMMA ReportIsRows ==
    ASSUME FrInv, NEW from \in Days, NEW to \in Days, NEW groupBy \in {"driver", "site"}
    PROVE  ReportTotal(from, to, groupBy) = SumOver(RowCost, InRange(from, to))
  <1>1. PICK K : K = FleetDrivers \cup AllSites
    OBVIOUS
  <1>2. PICK I : I = InRange(from, to)
    OBVIOUS
  <1>3. PICK f : f = [r \in I |-> IF groupBy = "driver" THEN r.driver ELSE r.site]
    OBVIOUS
  <1>4. I \subseteq rollups /\ IsFiniteSet(I) /\ \A r \in I : RowOK(r)
    <2>1. I \subseteq rollups
      BY <1>2 DEF InRange
    <2> QED
      BY <2>1, FS_Subset DEF FrInv, RowsOK
  <1>5. \A r \in I : f[r] \in K /\ RowCost[r] \in Int
    BY <1>1, <1>3, <1>4 DEF RowOK, RowCost
  <1>6. IsFiniteSet(K)
    BY <1>1, FrConstants
  <1>7. SumOver(GroupSums(RowCost, f, I, K), K) = SumOver(RowCost, I)
    BY <1>4, <1>5, <1>6, SumByKey
  <1>8. PICK rowSum : rowSum = [key \in K |-> ReportRow(key, from, to, groupBy)]
    OBVIOUS
  <1>9. ReportTotal(from, to, groupBy) = SumOver(rowSum, K)
    BY <1>1, <1>8 DEF ReportTotal, SumOver
  <1>10. ASSUME NEW key \in K PROVE rowSum[key] = GroupSums(RowCost, f, I, K)[key]
    <2>1. {r \in InRange(from, to) : key \in ReportKey(r, groupBy)} = Group(f, I, key)
      BY <1>2, <1>3 DEF ReportKey, Group
    <2>2. PICK G : G = Group(f, I, key)
      OBVIOUS
    <2>3. ReportRow(key, from, to, groupBy) = SumOver(RowCost, G)
      BY <2>1, <2>2 DEF ReportRow, SumOver
    <2> QED
      BY <1>8, <2>2, <2>3 DEF GroupSums
  <1>11. SumOver(rowSum, K) = SumOver(GroupSums(RowCost, f, I, K), K)
    BY <1>6, <1>10, SumAgrees
  <1> QED
    BY <1>2, <1>7, <1>9, <1>11

\* Rollups are appended and never replaced (run_daily_rollup, generate_report): for
\* every range of days the report's total is the same by driver and by site, and
\* counts each session once for every rollup of its day that came after it.  For any
\* number of sessions, drivers, sites and days, and any costs.
THEOREM ReportsCountWhatWasRolledUp == FrSpec => []ReportCountsSessions
  <1>1. FrSpec => []FrInv
    BY FrInvInit, FrInvNext, PTL DEF FrSpec
  <1>2. FrInv => ReportCountsSessions
    <2> SUFFICES ASSUME FrInv, NEW from \in Days, NEW to \in Days
                 PROVE  LET within == {s \in FleetSessions : from <= usage[s].day /\ usage[s].day <= to}
                            times == [s \in FleetSessions |-> usage[s].cost * counted[s]]
                            real == MapThenSumSet(LAMBDA s : times[s], within)
                        IN  ReportTotal(from, to, "driver") = real /\ ReportTotal(from, to, "site") = real
      BY DEF ReportCountsSessions
    <2>1. PICK W, t : W = Within(from, to) /\ t = TimesCounted
      OBVIOUS
    <2>2. ReportTotal(from, to, "driver") = SumOver(t, W) /\ ReportTotal(from, to, "site") = SumOver(t, W)
      BY <2>1, ReportIsRows DEF FrInv, RowsAddUp
    <2> QED
      BY <2>1, <2>2 DEF SumOver, Within, TimesCounted
  <1> QED
    BY <1>1, <1>2, PTL
==============================================================================
