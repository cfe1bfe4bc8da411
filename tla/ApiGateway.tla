------------------------------ MODULE ApiGateway ------------------------------
(***************************************************************************)
(* The public gateway's token endpoints (gateway/app.py): authorization    *)
(* codes with PKCE, refresh tokens and SSO, all behind a per-tenant rate   *)
(* limit.                                                                  *)
(*                                                                         *)
(* A handler redeems the code or rotates the token first and asks the rate *)
(* limiter afterwards.  With the in-memory limiter it runs to its end in   *)
(* one step; with the Redis limiter it is suspended before INCR and again  *)
(* between INCR and EXPIRE, and the gateway may die there, which loses its *)
(* stores and not the counter.  A request is [kind, id, gen]: a code, the  *)
(* generation of a refresh token family, or an SSO assertion.              *)
(***************************************************************************)
EXTENDS Naturals, FiniteSets, Functions

CONSTANTS Clients,   \* OAuth clients, each of one tenant
          Tenants,
          Codes,     \* bound: authorization codes that are handed out
          Families,  \* bound: refresh token families that are issued
          MaxGen,    \* bound: generations of a family
          Limit,     \* rate_limit_requests_per_window
          Window,    \* rate_limit_window_seconds, in ticks
          Limiters   \* the limiters considered: "memory", "redis"

ASSUME GatewayAssumption ==
    /\ {MaxGen, Limit, Window} \subseteq Nat \ {0}
    /\ Limiters \subseteq {"memory", "redis"}
    /\ IsFiniteSet(Families) /\ IsFiniteSet(Clients)

VARIABLES
    limiter,   \* which limiter the gateway was built with
    tenant,    \* the tenant of each client
    pending,   \* AuthorizationCodeStore._pending
    handedOut, \* codes that have been created
    known,     \* families the refresh store remembers
    current,   \* generation of the family's current token, 0 before it is issued
    revoked,   \* _revoked_families
    origin,    \* the request each family was issued for
    window,    \* the limiter's entry of each key: [count, age, armed]
    cred,      \* what each client holds
    call,      \* the client's request under way: [pc, req]
    hurt,      \* clients whose tokens were lost on the way, or whose refresh was limited or cut off
    granted    \* requests let through in the last Window ticks, by age

agVars == <<limiter, tenant, pending, handedOut, known, current, revoked, origin, window,
          cred, call, hurt, granted>>
setup  == <<limiter, tenant>>
codeVars  == <<pending, handedOut>>
tokenVars == <<known, current, revoked, origin>>
limitVars == <<window, granted>>

None == [kind |-> "none", id |-> "none", gen |-> 0]
Code(k) == [kind |-> "code", id |-> k, gen |-> 0]
Sso == [kind |-> "sso", id |-> "sso", gen |-> 0]
Token(f, g) == [kind |-> "token", id |-> f, gen |-> g]
NoCall == [pc |-> "idle", req |-> None]

\* No entry: the window starts with the first request.
NoWindow == [count |-> 0, age |-> 0, armed |-> FALSE]
Never == [a \in 0..Window - 1 |-> 0]

\* key=f"tenant:{tenant_id}"
KeyOf(t) == t

Key(c) == KeyOf(tenant[c])

AgInit ==
    /\ limiter \in Limiters /\ tenant \in [Clients -> Tenants]
    /\ pending = {} /\ handedOut = {}
    /\ known = {} /\ revoked = {}
    /\ current = [f \in Families |-> 0] /\ origin = [f \in Families |-> None]
    /\ window = [t \in Tenants |-> NoWindow]
    /\ cred = [c \in Clients |-> None] /\ call = [c \in Clients |-> NoCall]
    /\ hurt = {}
    /\ granted = [t \in Tenants |-> Never]

-----------------------------------------------------------------------------
(* The rate limiter *)

\* Counts above the limit are all alike.
Count(n) == IF n > Limit THEN Limit + 1 ELSE n

\* Variant: one request too many.
AllowsOneMore(n) == n <= Limit + 1

Allows(n) == n <= Limit

\* Variant: every request starts the window again.
MemoryHitRestarting(w) == [count |-> Count(w.count + 1), age |-> 0, armed |-> TRUE]

\* InMemoryRateLimiter.allow: a window that has run out is replaced.
MemoryHit(w) ==
    IF w.age >= Window THEN [count |-> 1, age |-> 0, armed |-> TRUE]
    ELSE [w EXCEPT !.count = Count(w.count + 1), !.armed = TRUE]

Hit(w) == IF limiter = "memory" THEN MemoryHit(w) ELSE [w EXCEPT !.count = Count(w.count + 1)]

Bump(h, t) == [h EXCEPT ![t][0] = IF @ > Limit THEN @ ELSE @ + 1]

\* The rest of the handler once the limiter has counted n: 429, the token
\* that rotate returned, or a family issued now.  cur: the families as the
\* handler has left them so far.
Finish(c, req, n, cur, kn) ==
    \/ /\ ~Allows(n)
       /\ call' = [call EXCEPT ![c] = [pc |-> "limited", req |-> req]]
       /\ current' = cur /\ known' = kn
       /\ UNCHANGED <<origin, granted>>
    \/ /\ Allows(n)
       /\ granted' = Bump(granted, tenant[c])
       /\ \/ /\ req.kind = "token"
             /\ call' = [call EXCEPT ![c] = [pc |-> "granted", req |-> req]]
             /\ current' = cur /\ known' = kn
             /\ UNCHANGED origin
          \/ /\ req.kind # "token"
             /\ \E f \in {g \in Families : cur[g] = 0} :
                   /\ current' = [cur EXCEPT ![f] = 1] /\ known' = kn \cup {f}
                   /\ origin' = [origin EXCEPT ![f] = req]
                   /\ call' = [call EXCEPT ![c] = [pc |-> "granted", req |-> Token(f, 1)]]

\* _enforce_rate_limit and what follows it.
Enforce(c, req, cur) ==
    \/ /\ limiter = "memory"
       /\ LET w == Hit(window[Key(c)]) IN
          /\ window' = [window EXCEPT ![Key(c)] = w]
          /\ Finish(c, req, w.count, cur, known)
    \/ /\ limiter = "redis"
       /\ call' = [call EXCEPT ![c] = [pc |-> "incr", req |-> req]]
       /\ current' = cur
       /\ UNCHANGED <<known, origin, limitVars>>

\* RedisRateLimiter.allow: INCR; the first request of a window goes on to EXPIRE.
Incr(c) ==
    /\ call[c].pc = "incr"
    /\ LET w == Hit(window[Key(c)]) IN
       /\ window' = [window EXCEPT ![Key(c)] = w]
       /\ \/ /\ w.count = 1
             /\ call' = [call EXCEPT ![c].pc = "expire"]
             /\ UNCHANGED <<known, current, origin, granted>>
          \/ /\ w.count # 1
             /\ Finish(c, call[c].req, w.count, current, known)
    /\ UNCHANGED <<setup, codeVars, revoked, cred, hurt>>

\* EXPIRE, and the handler goes on with the count of 1 that INCR returned.
Expire(c) ==
    /\ call[c].pc = "expire"
    /\ window' = [window EXCEPT ![Key(c)].age = 0, ![Key(c)].armed = TRUE]
    /\ Finish(c, call[c].req, 1, current, known)
    /\ UNCHANGED <<setup, codeVars, revoked, cred, hurt>>

-----------------------------------------------------------------------------
(* The endpoints *)

\* bound: a family is left for every request that will issue one.
FamilyLeft ==
    Cardinality({f \in Families : current[f] = 0}) >
    Cardinality({d \in Clients : call[d].pc \in {"incr", "expire"}
                                 /\ call[d].req.kind # "token"})

\* POST /oauth/authorize
Authorize(c, k) ==
    /\ call[c] = NoCall /\ cred[c] = None /\ k \notin handedOut
    /\ handedOut' = handedOut \cup {k} /\ pending' = pending \cup {k}
    /\ cred' = [cred EXCEPT ![c] = Code(k)]
    /\ UNCHANGED <<setup, tokenVars, limitVars, call, hurt>>

RefuseCall(c, req) == call' = [call EXCEPT ![c] = [pc |-> "refused", req |-> req]]

\* AuthorizationCodeStore.consume
Consume(k) == pending \ {k}

\* POST /oauth/token with a code.  proven: the verifier matches the challenge.
\* The code is spent either way.
RedeemCode(c, proven) ==
    /\ call[c] = NoCall /\ cred[c].kind = "code" /\ FamilyLeft
    /\ pending' = Consume(cred[c].id)
    /\ \/ /\ cred[c].id \in pending /\ proven
          /\ Enforce(c, cred[c], current)
       \/ /\ ~(cred[c].id \in pending /\ proven)
          /\ RefuseCall(c, cred[c])
          /\ UNCHANGED <<known, current, origin, limitVars>>
    /\ UNCHANGED <<setup, handedOut, revoked, cred, hurt>>

\* Variant: the rotated token is returned and not made the current one.
RotatedNowhere(f) == current

Rotated(f) == [current EXCEPT ![f] = @ + 1]

\* rotate refuses: an unknown token is an error and no more; a retired one
\* revokes its family, a revoked family stays so.
Revoked(f) == IF f \in known THEN revoked \cup {f} ELSE revoked

\* POST /oauth/token with a refresh token: rotate, then the rate limit.
RefreshToken(c) ==
    LET f == cred[c].id
        valid == f \in known /\ f \notin revoked /\ current[f] = cred[c].gen IN
    /\ call[c] = NoCall /\ cred[c].kind = "token" /\ cred[c].gen < MaxGen
    /\ \/ /\ valid
          /\ Enforce(c, Token(f, cred[c].gen + 1), Rotated(f))
          /\ UNCHANGED revoked
       \/ /\ ~valid
          /\ revoked' = Revoked(f)
          /\ RefuseCall(c, cred[c])
          /\ UNCHANGED <<known, current, origin, limitVars>>
    /\ UNCHANGED <<setup, codeVars, cred, hurt>>

\* What may be wrong with an assertion.  An assertion that states no end of its
\* validity is not expired, for either kind of provider.
Flaws == {"malformed", "signature", "audience", "issuer", "expired", "subject"}

\* One assertion per provider and flaw, and one without any.
Assertions == [provider : {"oidc", "saml", "unlisted"}, flaw : Flaws \cup {"none"}]

\* OIDCProvider.authenticate: jwt.decode, then a subject that is not empty.
OidcAuthenticates(a) == a.provider = "oidc" /\ a.flaw \notin Flaws

\* SAMLProvider.authenticate: the signature and the audience are not looked at.
SamlAuthenticates(a) ==
    a.provider = "saml" /\ a.flaw \notin {"malformed", "issuer", "subject", "expired"}

\* POST /sso/{provider}/callback: 404 for a provider that is not configured.
SsoCallback(c, a) ==
    LET ok == OidcAuthenticates(a) \/ SamlAuthenticates(a) IN
    /\ call[c] = NoCall /\ cred[c] = None /\ FamilyLeft
    /\ \/ ok /\ Enforce(c, Sso, current)
       \/ /\ ~ok /\ RefuseCall(c, Sso)
          /\ UNCHANGED <<known, current, origin, limitVars>>
    /\ UNCHANGED <<setup, codeVars, revoked, cred, hurt>>

-----------------------------------------------------------------------------
(* Clients, time and the gateway process *)

\* The client gets its answer.  After 401 or 400 it starts over; after 429 it
\* keeps what it has and tries that again.
AgDeliver(c) ==
    /\ call[c].pc \in {"granted", "limited", "refused"}
    /\ cred' = [cred EXCEPT ![c] = CASE call[c].pc = "granted" -> call[c].req
                                     [] call[c].pc = "refused" -> None
                                     [] OTHER -> @]
    /\ hurt' = IF call[c].pc = "limited" /\ cred[c].kind = "token" THEN hurt \cup {c} ELSE hurt
    /\ call' = [call EXCEPT ![c] = NoCall]
    /\ UNCHANGED <<setup, codeVars, tokenVars, limitVars>>

\* The answer is lost and the client keeps what it had, as it does after a 429.
AnswerLost(c) ==
    /\ call[c].pc = "granted"
    /\ call' = [call EXCEPT ![c] = NoCall]
    /\ hurt' = hurt \cup {c}
    /\ UNCHANGED <<setup, codeVars, tokenVars, limitVars, cred>>

Older(h) == [t \in Tenants |-> [a \in 0..Window - 1 |-> IF a = 0 THEN 0 ELSE h[t][a - 1]]]

Aged(w) ==
    CASE ~w.armed -> w
      [] w.armed /\ w.age + 1 < Window -> [w EXCEPT !.age = @ + 1]
      [] OTHER -> IF limiter = "redis" THEN NoWindow ELSE [w EXCEPT !.age = Window]

\* Redis deletes a key whose time is up; the in-memory limiter looks at its
\* age when it is next asked.  A round trip to Redis takes no tick.
AgTick ==
    /\ \A c \in Clients : call[c].pc \notin {"incr", "expire"}
    /\ \E t \in Tenants : window[t].count > 0 \/ granted[t] # Never
    /\ window' = [t \in Tenants |-> Aged(window[t])]
    /\ granted' = Older(granted)
    /\ UNCHANGED <<setup, codeVars, tokenVars, cred, call, hurt>>

\* The gateway dies and starts again: its in-memory stores are empty.
GatewayRestarts ==
    /\ known # {} \/ pending # {} \/ \E c \in Clients : call[c] # NoCall
    /\ pending' = {} /\ known' = {} /\ revoked' = {}
    /\ call' = [c \in Clients |-> NoCall]
    /\ hurt' = Clients
    /\ IF limiter = "memory"
       THEN /\ window' = [t \in Tenants |-> NoWindow]
            /\ granted' = [t \in Tenants |-> Never]
       ELSE UNCHANGED limitVars
    /\ UNCHANGED <<setup, handedOut, current, origin, cred>>

AgNext ==
    \/ \E c \in Clients :
        \/ \E k \in Codes : Authorize(c, k)
        \/ \E proven \in BOOLEAN : RedeemCode(c, proven)
        \/ RefreshToken(c)
        \/ \E a \in Assertions : SsoCallback(c, a)
        \/ Incr(c) \/ Expire(c) \/ AgDeliver(c) \/ AnswerLost(c)
    \/ AgTick \/ GatewayRestarts

AgSpec == AgInit /\ [][AgNext]_agVars

\* The clock advances, whatever else goes on (strong fairness: AgTick is disabled only
\* while a request is at Redis), and Redis answers.
AgFairness == SF_agVars(AgTick) /\ \A c \in Clients : WF_agVars(Incr(c)) /\ WF_agVars(Expire(c))

AgFairSpec == AgSpec /\ AgFairness

-----------------------------------------------------------------------------
Requests == {None, Sso} \cup {Code(k) : k \in Codes}
            \cup {Token(f, g) : f \in Families, g \in 1..MaxGen}

\* Every variable has the shape the code gives it; a family the store knows
\* has a current generation, and its tokens are numbered from 1.
AgTypeOK ==
    /\ limiter \in Limiters /\ tenant \in [Clients -> Tenants]
    /\ pending \subseteq handedOut /\ handedOut \subseteq Codes
    /\ known \subseteq {f \in Families : current[f] > 0} /\ revoked \subseteq known
    /\ current \in [Families -> 0..MaxGen] /\ origin \in [Families -> Requests]
    /\ window \in [Tenants -> [count : 0..Limit + 1, age : 0..Window, armed : BOOLEAN]]
    /\ cred \in [Clients -> Requests]
    /\ call \in [Clients -> [pc : {"idle", "incr", "expire", "granted", "limited", "refused"},
                             req : Requests]]
    /\ hurt \subseteq Clients
    /\ granted \in [Tenants -> [0..Window - 1 -> Nat]]

\* An authorization code starts one session: whatever clients present, in
\* which order, and whatever is refused, no two families come from one code.
CodeRedeemedOnce ==
    \A f, g \in Families : origin[f].kind = "code" /\ origin[f] = origin[g] => f = g

\* A code starts one session; and a client that has got all its answers, and
\* none of them a 429 to a refresh, holds the token the gateway will accept
\* next, whatever others do.
SessionSurvives ==
    /\ CodeRedeemedOnce
    /\ \A c \in Clients \ hurt :
          call[c] = NoCall /\ cred[c].kind = "token" =>
              LET f == cred[c].id IN
              f \in known /\ f \notin revoked /\ current[f] = cred[c].gen

\* However a tenant times its requests, a stretch of one window's length sees
\* at most two windows' worth of them let through.
BurstIsBounded == \A t \in Tenants : SumFunction(granted[t]) <= 2 * Limit

\* INCR was carried out and EXPIRE will never be: the key stays for ever.
Orphaned(t) ==
    /\ window[KeyOf(t)].count > 0 /\ ~window[KeyOf(t)].armed
    /\ \A c \in Clients : call[c].pc = "expire" => Key(c) # KeyOf(t)

\* The tenant's next request would be refused.
Exhausted(t) == ~Allows(Hit(window[KeyOf(t)]).count)

\* A tenant that has used up its window is let in again, also when its clients
\* never stop asking (unless its key was orphaned).
LimitLifts == \A t \in Tenants : Exhausted(t) ~> (~Exhausted(t) \/ Orphaned(t))
=============================================================================
