------------------------------- MODULE Tenancy -------------------------------
(* A request's tenant from the edge to the rows it reads: the forwarders sign  *)
(* the tenant of the verified caller, GatewaySignatureMiddleware and           *)
(* TenantContextMiddleware accept or refuse it, get_db stamps it on the        *)
(* transaction, and the row level security policy compares it with each row.   *)
(* Postgres and PgBouncer in transaction pooling mode are external: a          *)
(* transaction runs on any free server connection, and set_config(.., true)    *)
(* lasts until it ends.  A row is the tenant it belongs to.  The middlewares   *)
(* and the forwarders are wired up in main.py and edge_app.py; get_db, the     *)
(* SQLAlchemy path, is offered by core/db.py and used by no router of this     *)
(* commit, and the Supabase repositories have no row level security            *)
(* (schema.sql:20-30).                                                         *)
EXTENDS Naturals

CONSTANTS
    Tenants,
    TenantOf,      \* the tenant of each driver
    Connections,   \* server connections
    Requests,      \* requests under way at once
    None

ASSUME TenancyAssumption ==
    /\ None \notin Tenants \cup DOMAIN TenantOf \cup Requests
    /\ TenantOf \in [DOMAIN TenantOf -> Tenants]

VARIABLES
    req,       \* the requests as main.py sees them
    setting,   \* app.current_tenant of each server connection
    user       \* the request each server connection runs a transaction of

teVars == <<req, setting, user>>

TeamMembers == DOMAIN TenantOf
NoRequest == [pc |-> "idle", tenant |-> None, signature |-> None, driver |-> None, ctx |-> None,
         rows |-> {}, caller |-> None]

TeTypeOK ==
    /\ req \in [Requests -> [pc: {"idle", "sent", "inside", "bound"}, tenant: Tenants \cup {None},
                             signature: Tenants \cup {None}, driver: TeamMembers \cup {None},
                             ctx: Tenants \cup {None}, rows: SUBSET Tenants,
                             caller: Tenants \cup {None}]]
    /\ setting \in [Connections -> Tenants \cup {None}]
    /\ user \in [Connections -> Requests \cup {None}]

TeInit ==
    /\ req = [r \in Requests |-> NoRequest]
    /\ setting = [c \in Connections |-> None]
    /\ user = [c \in Connections |-> None]

------------------------------------------------------------------------------
\* Whom a session request is for: qr, app, status, live and stop carry the
\* verified driver's id in place of whatever was sent; autocharge and
\* plug-and-charge are for whoever owns the address or certificate in the body.
ForwardedDriver(method, d, owner) == IF method \in {"autocharge", "plug-and-charge"} THEN owner ELSE d

\* What the edge sends upstream for a driver with a valid access token.
Upstream(r, d, who) ==
    /\ req[r] = NoRequest
    /\ req' = [req EXCEPT ![r] = [NoRequest EXCEPT !.pc = "sent", !.tenant = TenantOf[d], !.signature = TenantOf[d],
                                              !.driver = who, !.caller = TenantOf[d]]]
    /\ UNCHANGED <<setting, user>>

ForwardSession(r, d, owner) ==
    \E method \in {"qr", "app", "autocharge", "plug-and-charge", "status", "live", "stop"} :
        Upstream(r, d, ForwardedDriver(method, d, owner))
ForwardWallet(r, d) == Upstream(r, d, d)
ForwardRewards(r, d) == Upstream(r, d, d)

\* The development forwarder signs the tenant the portal names.
ForwardDev(r, t) ==
    /\ req[r] = NoRequest
    /\ req' = [req EXCEPT ![r] = [NoRequest EXCEPT !.pc = "sent", !.tenant = t, !.signature = t, !.caller = t]]
    /\ UNCHANGED <<setting, user>>

\* A request that did not come through the edge or the gateway.
Direct(r, t) ==
    /\ req[r] = NoRequest
    /\ req' = [req EXCEPT ![r] = [NoRequest EXCEPT !.pc = "sent", !.tenant = t]]
    /\ UNCHANGED <<setting, user>>

\* The tenant header is present and its signature is for it.
Trusted(r) == req[r].tenant # None /\ req[r].signature = req[r].tenant

\* TenantContextMiddleware sets the context variable of the request's task.
Enter(r) ==
    /\ req[r].pc = "sent" /\ Trusted(r)
    /\ req' = [req EXCEPT ![r].pc = "inside", ![r].ctx = req[r].tenant]
    /\ UNCHANGED <<setting, user>>

\* 401 without a tenant header, 403 without a signature for it.
Refuse(r) ==
    /\ req[r].pc = "sent" /\ ~Trusted(r)
    /\ req' = [req EXCEPT ![r] = NoRequest]
    /\ UNCHANGED <<setting, user>>

Holds(r, c) == user[c] = r
Outside(r) == req[r].pc \in {"inside", "bound"} /\ \A c \in Connections : ~Holds(r, c)

\* get_db: a transaction begins with bind_tenant_context.
BindTenant(r, c) ==
    /\ Outside(r) /\ req[r].pc = "inside" /\ user[c] = None
    /\ user' = [user EXCEPT ![c] = r]
    /\ setting' = [setting EXCEPT ![c] = req[r].ctx]
    /\ req' = [req EXCEPT ![r].pc = "bound"]

\* The handler goes on with its session after a commit: a transaction begins
\* with a query, on whatever connection is free.
BeginAgain(r, c) ==
    /\ Outside(r) /\ req[r].pc = "bound" /\ user[c] = None
    /\ user' = [user EXCEPT ![c] = r]
    /\ UNCHANGED <<req, setting>>

\* The policy: the rows whose tenant is the setting, none without one.
Visible(c) == {t \in Tenants : t = setting[c]}

Query(r, c) ==
    /\ Holds(r, c)
    /\ req' = [req EXCEPT ![r].rows = @ \cup Visible(c)]
    /\ UNCHANGED <<setting, user>>

\* Variant: the setting is the session's, not the transaction's.
SettingKept(c) == setting[c]

\* The third argument of set_config is true.
SettingAfter(c) == None

TransactionEnds(r, c) ==
    /\ Holds(r, c)
    /\ user' = [user EXCEPT ![c] = None]
    /\ setting' = [setting EXCEPT ![c] = SettingAfter(c)]
    /\ UNCHANGED req

\* The response is sent and the context variable reset.
Respond(r) ==
    /\ Outside(r)
    /\ req' = [req EXCEPT ![r] = NoRequest]
    /\ UNCHANGED <<setting, user>>

TeNext ==
    \E r \in Requests :
        \/ \E d, owner \in TeamMembers : ForwardSession(r, d, owner)
        \/ \E d \in TeamMembers : ForwardWallet(r, d) \/ ForwardRewards(r, d)
        \/ \E t \in Tenants : ForwardDev(r, t)
        \/ \E t \in Tenants \cup {None} : Direct(r, t)
        \/ Enter(r) \/ Refuse(r) \/ Respond(r)
        \/ \E c \in Connections : BindTenant(r, c) \/ BeginAgain(r, c) \/ Query(r, c) \/ TransactionEnds(r, c)

TeSpec == TeInit /\ [][TeNext]_teVars

------------------------------------------------------------------------------
(* RowsAreCallers: what main.py lets in runs under the tenant of the caller the *)
(* edge verified, however the header was sent (gateway/middleware.py:36-54),    *)
(* and on the get_db path, where connections are shared between requests of all *)
(* tenants and a handler may go on after a commit, when its setting is gone     *)
(* (core/tenancy.py:83-84, core/db.py:34-40), every row a request has read      *)
(* belongs to that tenant.                                                      *)
RowsAreCallers ==
    \A r \in Requests :
        /\ req[r].pc \in {"inside", "bound"} => req[r].caller # None /\ req[r].ctx = req[r].caller
        /\ req[r].rows \subseteq {req[r].caller}
==============================================================================
